---- MODULE Spec2Model ----
(***************************************************************************)
(* A model of the Kademlia node runtime of SarthakMakhija/kademlia:        *)
(* identifiers and XOR distance (src/id.rs), the routing table             *)
(* (src/routing/mod.rs), the waiting list with its sweeper                 *)
(* (src/net/wait.rs), the async network send path (src/net/mod.rs), the    *)
(* two executors (src/executor/message.rs, src/executor/node.rs) and the   *)
(* message actions (src/executor/message_action.rs).                       *)
(***************************************************************************)
EXTENDS Integers, Sequences, FiniteSets, TLC

\* ------------------------------------------------------------------------
\* Bounds of the model
\* ------------------------------------------------------------------------

\* bytes per identifier (the tests build ids from u16, the node uses 20)
IdLengthInBytes == 2

\* capacity of every bucket of the modelled table (new_with_bucket_capacity)
BucketCapacity == 2

\* the clock runs from 0 to MaxTime, and on until the waiting list has expired
MaxTime == 3

\* expire_pending_responses_after, in clock ticks
ExpireAfter == 1

\* number of callbacks (registrations) one behaviour creates
MaxCallbacks == 2

\* number of submit calls one behaviour makes, over both executors
MaxSubmits == 2

\* number of direct handle_response calls of the waiting-list driver
MaxResponses == 2

\* number of threads that call the routing table at the same time
TableThreads == 2

\* number of calls on the routing table in one behaviour
MaxCalls == 3

\* number of connections the server accepts in one behaviour
MaxConnections == 2

\* the largest number of neighbors asked of closest_neighbors
MaxNeighbors == 3

\* ------------------------------------------------------------------------
\* Program constants
\* ------------------------------------------------------------------------

BITS_IN_BYTE == 8

\* mpsc::channel(100)
QueueCapacity == 100

\* closest_neighbors(.., 5) in the FindValue and FindNode actions
NeighborsInReply == 5

\* Option<T>: None is the empty sequence, Some(x) the sequence of x alone
None == <<>>

Some(x) == <<x>>

is_some(option) == option # None

unwrap(option) == option[1]

\* ------------------------------------------------------------------------
\* Identifiers (src/id.rs)
\* ------------------------------------------------------------------------

id_length_in_bits(id) == Len(id) * BITS_IN_BYTE

\* byte ^ other, bit by bit
RECURSIVE xor(_, _)
xor(a, b) ==
    IF a = 0 /\ b = 0 THEN 0
    ELSE (((a % 2) + (b % 2)) % 2) + (2 * xor(a \div 2, b \div 2))

\* is_bit_set that counts the position from the least significant bit
is_bit_set_from_low(byte, position) == ((byte \div (2 ^ position)) % 2) > 0

is_bit_set(byte, position) ==
    LET shift == BITS_IN_BYTE - 1 - position
        value == (byte \div (2 ^ shift)) % 2
    IN  value > 0

\* the loop of bit_position_set_in, from bit_position on
RECURSIVE first_bit_set(_, _)
first_bit_set(byte, bit_position) ==
    IF bit_position >= BITS_IN_BYTE THEN <<0, FALSE>>
    ELSE IF is_bit_set(byte, bit_position) THEN <<bit_position, TRUE>>
    ELSE first_bit_set(byte, bit_position + 1)

bit_position_set_in(byte) == first_bit_set(byte, 0)

\* the loop of differing_bit_position, from the byte at index on
RECURSIVE first_differing_bit(_, _, _)
first_differing_bit(self, other, index) ==
    IF index > Len(self) THEN 0
    ELSE IF bit_position_set_in(xor(self[index], other[index]))[2]
    THEN id_length_in_bits(self)
             - (((index - 1) * BITS_IN_BYTE)
                    + bit_position_set_in(xor(self[index], other[index]))[1])
             - 1
    ELSE first_differing_bit(self, other, index + 1)

differing_bit_position(self, other) == first_differing_bit(self, other, 1)

RECURSIVE from_bytes_be(_)
from_bytes_be(bytes) ==
    IF bytes = <<>> THEN 0
    ELSE (from_bytes_be(SubSeq(bytes, 1, Len(bytes) - 1)) * 256) + bytes[Len(bytes)]

distance_from(self, other) ==
    from_bytes_be([i \in 1..Len(self) |-> xor(self[i], other[i])])

\* Id::new(n.to_be_bytes()) for the width of the model
RECURSIVE to_be_bytes(_, _)
to_be_bytes(n, len) ==
    IF len = 0 THEN <<>>
    ELSE Append(to_be_bytes(n \div 256, len - 1), n % 256)

IdOf(n) == to_be_bytes(n, IdLengthInBytes)

\* ------------------------------------------------------------------------
\* Nodes
\* ------------------------------------------------------------------------

NewNodeWithId(endpoint, id) == [id |-> id, endpoint |-> endpoint]

\* the node that owns the table: id 255, as in every test of the executors
CurrentNode == NewNodeWithId(9090, IdOf(255))

BITS == id_length_in_bits(CurrentNode.id)

BucketIndices == 0..(BITS - 1)

\* ------------------------------------------------------------------------
\* Routing table (src/routing/mod.rs), as operators on the buckets
\* ------------------------------------------------------------------------

max_bucket_capacity == BucketCapacity

EmptyTable == [bucket_index \in BucketIndices |-> <<>>]

\* a bucket_index that compares the id with itself
bucket_index_of_itself(node_id) == differing_bit_position(node_id, node_id)

bucket_index(node_id) == differing_bit_position(CurrentNode.id, node_id)

contains(buckets, node) ==
    LET index == bucket_index(node.id)
        nodes == buckets[index]
    IN  <<index, \E i \in 1..Len(nodes) : nodes[i] = node>>

\* an add_internal that pushes whatever the length of the bucket
add_internal_unbounded(nodes, node) == [nodes |-> Append(nodes, node), added |-> TRUE]

add_internal(nodes, node) ==
    IF Len(nodes) < max_bucket_capacity
    THEN [nodes |-> Append(nodes, node), added |-> TRUE]
    ELSE [nodes |-> nodes, added |-> FALSE]

\* a removal that takes the oldest node whichever node is asked for
remove_internal_oldest(nodes, node) == IF nodes = <<>> THEN nodes ELSE Tail(nodes)

\* Table::remove_internal
remove_internal(nodes, node) ==
    LET positions == {i \in 1..Len(nodes) : nodes[i] = node}
        index == CHOOSE i \in positions : \A j \in positions : i <= j
    IN  IF positions = {} THEN nodes
        ELSE SubSeq(nodes, 1, index - 1) \o SubSeq(nodes, index + 1, Len(nodes))

\* an add that does not look for the node first
add_without_contains(buckets, node) ==
    LET index == bucket_index(node.id)
        result == add_internal(buckets[index], node)
    IN  [buckets |-> [buckets EXCEPT ![index] = result.nodes],
         bucket_index |-> index, added |-> result.added]

\* Table::add when no other thread touches the bucket between the read of
\* contains and the write of add_internal
add(buckets, node) ==
    LET found == contains(buckets, node)
        result == add_internal(buckets[found[1]], node)
    IN  IF ~found[2]
        THEN [buckets |-> [buckets EXCEPT ![found[1]] = result.nodes],
              bucket_index |-> found[1], added |-> result.added]
        ELSE [buckets |-> buckets, bucket_index |-> found[1], added |-> FALSE]

\* the two assertions that open Table::remove_and_add
remove_and_add_asserts(index, to_remove, to_add) ==
    /\ index < BITS
    /\ bucket_index(to_remove.id) = bucket_index(to_add.id)

\* a remove_and_add that does not look for to_add
remove_and_add_present(buckets, index, to_remove, to_add) ==
    IF contains(buckets, to_remove)[2]
    THEN [buckets EXCEPT ![index] =
             add_internal(remove_internal(buckets[index], to_remove), to_add).nodes]
    ELSE buckets

remove_and_add(buckets, index, to_remove, to_add) ==
    IF contains(buckets, to_remove)[2] /\ ~contains(buckets, to_add)[2]
    THEN [buckets EXCEPT ![index] =
             add_internal(remove_internal(buckets[index], to_remove), to_add).nodes]
    ELSE buckets

\* the assertion that opens Table::first_node_in
first_node_in_asserts(index) == index < BITS

\* the newest node of a bucket in place of the oldest
last_node_in(buckets, index) ==
    IF Len(buckets[index]) > 0 THEN Some(buckets[index][Len(buckets[index])]) ELSE None

first_node_in(buckets, index) ==
    IF Len(buckets[index]) > 0 THEN Some(buckets[index][1]) ELSE None

\* Table::all_adjacent_bucket_indices: index, index+1, index-1, index+2, ...
RECURSIVE adjacent_from(_, _, _)
adjacent_from(adjacent_indices, low_bucket_index, high_bucket_index) ==
    IF Len(adjacent_indices) < BITS
    THEN LET with_high == IF high_bucket_index < BITS
                          THEN Append(adjacent_indices, high_bucket_index)
                          ELSE adjacent_indices
             with_low == IF low_bucket_index >= 0
                         THEN Append(with_high, low_bucket_index)
                         ELSE with_high
         IN  adjacent_from(with_low, low_bucket_index - 1, high_bucket_index + 1)
    ELSE adjacent_indices

all_adjacent_bucket_indices(index) == adjacent_from(<<index>>, index - 1, index + 1)

\* ------------------------------------------------------------------------
\* ClosestNeighbors (src/net/closest_neighbors.rs)
\* ------------------------------------------------------------------------

NewClosestNeighbors(maximum_capacity, for_target) ==
    [node_ids |-> {}, nodes |-> <<>>, target |-> for_target,
     maximum_capacity |-> maximum_capacity]

\* an add_missing that never looks at the node ids it holds
RECURSIVE add_missing_repeating(_, _)
add_missing_repeating(closest, nodes) ==
    IF nodes = <<>> THEN <<closest, TRUE>>
    ELSE IF Len(closest.nodes) < closest.maximum_capacity
         THEN add_missing_repeating([closest EXCEPT !.nodes = Append(@, Head(nodes))],
                                    Tail(nodes))
         ELSE <<closest, FALSE>>

\* add_missing: <<the collection afterwards, the value returned>>
RECURSIVE add_missing(_, _)
add_missing(closest, nodes) ==
    IF nodes = <<>> THEN <<closest, TRUE>>
    ELSE IF Len(closest.nodes) < closest.maximum_capacity
         THEN LET node == Head(nodes)
                  next == IF node.id \notin closest.node_ids
                          THEN [closest EXCEPT !.node_ids = @ \cup {node.id},
                                               !.nodes = Append(@, node)]
                          ELSE closest
              IN  add_missing(next, Tail(nodes))
         ELSE <<closest, FALSE>>

\* sort_by_key is a stable sort: insertion after the last key not greater
RECURSIVE sort_by_distance(_, _)
sort_by_distance(nodes, target) ==
    IF nodes = <<>> THEN <<>>
    ELSE LET sorted == sort_by_distance(SubSeq(nodes, 1, Len(nodes) - 1), target)
             node == nodes[Len(nodes)]
             key == distance_from(node.id, target)
             before == {i \in 1..Len(sorted) : distance_from(sorted[i].id, target) <= key}
             at == IF before = {} THEN 0 ELSE CHOOSE i \in before : \A j \in before : j <= i
         IN  SubSeq(sorted, 1, at) \o <<node>> \o SubSeq(sorted, at + 1, Len(sorted))

\* the nodes left in the order the buckets gave them
keep_bucket_order(closest) == closest

sort_ascending_by_distance(closest) ==
    [closest EXCEPT !.nodes = sort_by_distance(@, closest.target)]

\* the bucket loop of Table::closest_neighbors, with its break
RECURSIVE visit_buckets(_, _, _)
visit_buckets(buckets, indices, closest) ==
    IF indices = <<>> THEN closest
    ELSE LET nodes == buckets[Head(indices)]
             result == add_missing(closest, nodes)
         IN  IF nodes # <<>>
             THEN IF ~result[2] THEN result[1]
                  ELSE visit_buckets(buckets, Tail(indices), result[1])
             ELSE visit_buckets(buckets, Tail(indices), closest)

closest_neighbors(buckets, id, number_of_neighbors) ==
    LET index == differing_bit_position(CurrentNode.id, id)
        closest == visit_buckets(buckets, all_adjacent_bucket_indices(index),
                                 NewClosestNeighbors(number_of_neighbors, id))
    IN  sort_ascending_by_distance(closest)

\* ------------------------------------------------------------------------
\* Messages (src/net/message.rs)
\* ------------------------------------------------------------------------

NewSource(node) == [node_endpoint |-> node.endpoint, node_id |-> node.id]

to_node(source) == NewNodeWithId(source.node_endpoint, source.node_id)

\* the keys of the model with the ids KeyId::generate_from_bytes gives them
Keys == {"kademlia", "store type"}

KeyIdOf(key) == IF key = "kademlia" THEN IdOf(250) ELSE IdOf(300)

Message(type, message_id, source, key, key_id, value, node_id, neighbors) ==
    [type |-> type, message_id |-> message_id, source |-> source, key |-> key,
     key_id |-> key_id, value |-> value, node_id |-> node_id, neighbors |-> neighbors]

store_type(key, value, source) ==
    Message("Store", None, Some(NewSource(source)), Some(key), Some(KeyIdOf(key)),
            Some(value), None, None)

add_node_type(source) ==
    Message("AddNode", None, Some(NewSource(source)), None, None, None, None, None)

find_value_type(source, key) ==
    Message("FindValue", None, Some(NewSource(source)), Some(key), Some(KeyIdOf(key)),
            None, None, None)

\* the assertion of find_value_reply_type on its arguments
find_value_reply_type_asserts(value, closest_neighbors_found) ==
    is_some(value) \/ is_some(closest_neighbors_found)

find_value_reply_type(message_id, value, closest_neighbors_found) ==
    Message("FindValueReply", Some(message_id), None, None, None, value, None,
            closest_neighbors_found)

find_node_type(source) ==
    Message("FindNode", None, Some(NewSource(source)), None, None, None,
            Some(source.id), None)

find_node_reply_type(message_id, neighbors) ==
    Message("FindNodeReply", Some(message_id), None, None, None, None, None,
            Some(neighbors))

ping_type(current_node) ==
    Message("Ping", None, Some(NewSource(current_node)), None, None, None, None, None)

\* a PingReply that carries an id of its own
ping_reply_type_other_id(current_node, message_id) ==
    Message("PingReply", Some(message_id + 1), Some(NewSource(current_node)), None, None,
            None, None, None)

ping_reply_type(current_node, message_id) ==
    Message("PingReply", Some(message_id), Some(NewSource(current_node)), None, None,
            None, None, None)

shutdown_type == Message("ShutDown", None, None, None, None, None, None, None)

\* a source that takes the node of whatever message names one
source_of_any(message) ==
    IF message.source # None THEN Some(to_node(unwrap(message.source))) ELSE None

\* a source that takes a ShutDown to come from the node itself
source_of_shutdown_too(message) ==
    IF message.type \in {"Store", "AddNode", "FindValue", "FindNode", "Ping"}
    THEN Some(to_node(unwrap(message.source)))
    ELSE IF message.type = "ShutDown" THEN Some(CurrentNode) ELSE None

\* Message::source: the node of the source of a request, nothing for a reply
\* or a ShutDown
source(message) ==
    IF message.type \in {"Store", "AddNode", "FindValue", "FindNode", "Ping"}
    THEN Some(to_node(unwrap(message.source)))
    ELSE None

set_message_id(message, id) ==
    IF message.type \in {"FindValue", "FindNode", "Ping"}
    THEN [message EXCEPT !.message_id = Some(id)]
    ELSE message

ReplyTypes == {"PingReply", "FindValueReply", "FindNodeReply"}

\* ------------------------------------------------------------------------
\* State
\* ------------------------------------------------------------------------

VARIABLES
    \* WaitingList.pending_responses: message id -> TimedCallback
    pending_responses,
    \* AsyncNetwork.next_message_id, one counter per AsyncNetwork instance
    next_message_id,
    \* the reading of the Clock
    now,
    \* ExpiredPendingResponsesCleaner.should_stop
    should_stop,
    \* where the sweeper thread is: "sleep", "clean" or "stopped"
    sweeper_pc,
    \* the shards (one per id) the running retain pass has not visited yet
    sweep_todo,
    \* ResponseAwaitingCallbackHandle.response of every callback created
    callback_response,
    \* history: every on_response call made on each callback, with its time
    deliveries,
    \* history: the id and the time each callback was registered under
    registrations,
    \* history: the ids handle_response was called for and found no entry
    unknown_responses,
    \* number of handle_response calls the waiting-list driver has made
    driver_calls,
    \* the mpsc queue of each executor: ChanneledMessages, oldest first
    queue,
    \* whether the Receiver of each executor's queue is still alive
    receiver_open,
    \* where each executor's worker task is: "recv", "act", "connect",
    \* "register", "await", "respond" or "returned"
    worker_pc,
    \* the ChanneledMessage each worker is working on
    worker_message,
    \* the locals of AddNodeAction::act_on while it probes the oldest node
    add_node_local,
    \* the one-shot channel of every submission: "pending", a MessageStatus,
    \* "RecvError" (sender dropped) or "QueueClosed" (submit failed)
    message_response,
    \* InMemoryStore.value_by_key
    store,
    \* Table.buckets
    buckets,
    \* the ids of the probe pings a peer has read from its connection
    peer_received,
    \* the messages written to a peer's connection, with their endpoint
    sent,
    \* the tasks a handler spawned that have not run yet
    spawned,
    \* history: every submit call, in the order the calls completed
    submissions,
    \* history: the submissions each worker dequeued, in order
    dequeued,
    \* history: number of send_response calls per submission
    response_sends,
    \* history: the submissions whose handler has returned
    handler_returned,
    \* history: ids of probes whose PingReply was handled before any timeout
    answered_in_time,
    \* the threads that call the routing table: where each is in its call,
    \* with the arguments and the locals of the call
    thread_state,
    \* history: what the calls on the routing table returned, in order
    returns,
    \* history: the last call on the routing table when calls run one at a
    \* time, with the buckets before it and its result
    last_call,
    \* the connections accepted so far, each with the position of its
    \* AsyncConnectionHandler::handle
    connections,
    \* where each task that calls generate_next_message_id is: "idle" or
    \* "calling"
    task_pc,
    \* history: the ids generate_next_message_id returned to each task, in order
    task_ids,
    \* the two ids differing_bit_position and distance_from are called on
    id_pair,
    \* what the calls returned, each way round, once they are made
    id_measured,
    \* the callback, with the id of its entry, whose response lock each thread
    \* that is inside on_response holds for writing
    on_response_by,
    \* ResponseAwaitingCallbackHandle.waker_state: the callbacks that hold a waker
    waker_state,
    \* whether the task of the add-node worker has been woken since it last
    \* polled
    woken,
    \* the arguments Message::find_value_reply_type is called with
    reply_arguments,
    \* what the call gave, once it is made: a panic or the message
    reply_constructed

wl_vars == <<pending_responses, next_message_id, now, should_stop, sweeper_pc,
             sweep_todo, callback_response, deliveries, registrations,
             unknown_responses, driver_calls>>

node_vars == <<queue, receiver_open, worker_pc, worker_message, add_node_local,
               message_response, store, buckets, peer_received, sent, spawned, submissions,
               dequeued, response_sends, handler_returned, answered_in_time>>

table_vars == <<thread_state, returns, last_call>>

server_vars == <<connections>>

unit_vars == <<task_pc, task_ids, id_pair, id_measured, on_response_by, waker_state,
               woken, reply_arguments, reply_constructed>>

vars == <<wl_vars, node_vars, table_vars, server_vars, unit_vars>>

\* the bounds of the unit-level specifications
NetworkTasks == 3

MaxIds == 4

\* the width of AsyncNetwork.next_message_id, 64 bits in the code
CounterBits == 4

\* the tasks that share one AsyncNetwork
Tasks == 1..NetworkTasks

\* no task has called the network
TasksAtRest ==
    /\ task_pc = [task \in Tasks |-> "idle"]
    /\ task_ids = [task \in Tasks |-> <<>>]

\* no pair of ids is under measure
IdsAtRest ==
    /\ id_pair = None
    /\ id_measured = None

\* the threads that call on_response: the sweeper thread and the worker of
\* the MessageExecutor
Responders == {"Sweeper", "MessageExecutor"}

\* no thread is inside on_response, no handle has been polled
LocksAtRest ==
    /\ on_response_by = [thread \in Responders |-> None]
    /\ waker_state = {}
    /\ woken = FALSE

\* find_value_reply_type is not under call
RepliesAtRest ==
    /\ reply_arguments = None
    /\ reply_constructed = None

UnitAtRest == TasksAtRest /\ IdsAtRest /\ LocksAtRest /\ RepliesAtRest

\* the threads that share the routing table
Threads == 1..TableThreads

\* a thread between two calls
Idle == [pc |-> "idle", index |-> 0, node |-> None, to_remove |-> None]

\* ------------------------------------------------------------------------
\* Waiting list (src/net/wait.rs)
\* ------------------------------------------------------------------------

Networks == {"MessageExecutor", "AddNodeExecutor"}

\* the ids one behaviour can register: the counters start at 1
MessageIds == 1..MaxCallbacks

OkResponse(message) == [ok |-> TRUE, message |-> message, message_id |-> 0]

ResponseTimeoutError(message_id) ==
    [ok |-> FALSE, message |-> "ResponseTimeoutError", message_id |-> message_id]

TestError == [ok |-> FALSE, message |-> "TestError", message_id |-> 0]

TimedCallback(callback, creation_time) ==
    [callback |-> callback, creation_time |-> creation_time]

\* Clock::duration_since
duration_since(earlier) == IF now < earlier THEN 0 ELSE now - earlier

\* has_expired with "ge" in place of "gt": an entry expires one tick early
has_expired_ge(timed_callback) ==
    duration_since(timed_callback.creation_time) >= ExpireAfter

has_expired(timed_callback) ==
    duration_since(timed_callback.creation_time) > ExpireAfter

\* an insert that leaves the map as it is
insert_nothing(map, message_id, timed_callback) == map

\* an insert that keeps the entry already under the id
insert_if_absent(map, message_id, timed_callback) ==
    [id \in DOMAIN map \cup {message_id} |->
        IF id \in DOMAIN map THEN map[id] ELSE timed_callback]

\* DashMap::insert: an entry already under the id is replaced
insert(map, message_id, timed_callback) ==
    [id \in DOMAIN map \cup {message_id} |->
        IF id = message_id THEN timed_callback ELSE map[id]]

\* a removal that leaves the entry in the map
remove_nothing(map, message_id) == map

\* DashMap::remove, and the entry retain drops
remove(map, message_id) == [id \in DOMAIN map \ {message_id} |-> map[id]]

\* an on_response that loses the response
on_response_lost(responses, callback, response) == responses

\* Callback::on_response on a ResponseAwaitingCallback: the response is stored
on_response(responses, callback, response) ==
    [responses EXCEPT ![callback] = Some(response)]

Delivered(callback, response) ==
    [deliveries EXCEPT ![callback] = Append(@, [response |-> response, at |-> now])]

\* ResponseAwaitingCallback::new: the callbacks are numbered as they are made
NewCallback == Len(callback_response) + 1

\* WaitingList::add, for a callback made just before
WaitingListAdd(message_id, callback) ==
    /\ pending_responses' =
           insert(pending_responses, message_id, TimedCallback(callback, now))
    /\ registrations' = Append(registrations, [message_id |-> message_id, at |-> now])

\* WaitingList::handle_response
WaitingListHandleResponse(message_id, response) ==
    IF message_id \in DOMAIN pending_responses
    THEN LET callback == pending_responses[message_id].callback
         IN  /\ pending_responses' = remove(pending_responses, message_id)
             /\ callback_response' = on_response(callback_response, callback, response)
             /\ deliveries' = Delivered(callback, response)
             /\ UNCHANGED unknown_responses
    ELSE /\ unknown_responses' = unknown_responses \cup {message_id}
         /\ UNCHANGED <<pending_responses, callback_response, deliveries>>

\* WaitingList::stop
Stop ==
    /\ ~should_stop
    /\ should_stop' = TRUE
    /\ UNCHANGED <<pending_responses, next_message_id, now, sweeper_pc, sweep_todo,
                   callback_response, deliveries, registrations, unknown_responses,
                   driver_calls>>
    /\ UNCHANGED node_vars
    /\ UNCHANGED table_vars
    /\ UNCHANGED <<server_vars, unit_vars>>

\* the sweeper thread wakes up: it returns when told to stop, else starts clean
SweeperWake ==
    /\ sweeper_pc = "sleep"
    /\ IF should_stop
       THEN sweeper_pc' = "stopped" /\ UNCHANGED sweep_todo
       ELSE sweeper_pc' = "clean" /\ sweep_todo' = MessageIds
    /\ UNCHANGED <<pending_responses, next_message_id, now, should_stop,
                   callback_response, deliveries, registrations, unknown_responses,
                   driver_calls>>
    /\ UNCHANGED node_vars
    /\ UNCHANGED table_vars
    /\ UNCHANGED <<server_vars, unit_vars>>

\* one shard of the retain pass of clean: the entry under message_id, if any
\* and expired, gets the timeout error and is dropped
CleanShard(message_id) ==
    /\ sweeper_pc = "clean"
    /\ message_id \in sweep_todo
    /\ sweep_todo' = sweep_todo \ {message_id}
    /\ IF /\ message_id \in DOMAIN pending_responses
          /\ has_expired(pending_responses[message_id])
       THEN LET callback == pending_responses[message_id].callback
                response == ResponseTimeoutError(message_id)
            IN  /\ callback_response' = on_response(callback_response, callback, response)
                /\ deliveries' = Delivered(callback, response)
                /\ pending_responses' = remove(pending_responses, message_id)
       ELSE UNCHANGED <<pending_responses, callback_response, deliveries>>
    /\ UNCHANGED <<next_message_id, now, should_stop, sweeper_pc, registrations,
                   unknown_responses, driver_calls>>
    /\ UNCHANGED node_vars
    /\ UNCHANGED table_vars
    /\ UNCHANGED <<server_vars, unit_vars>>

\* the retain pass is over: thread::sleep
SweeperSleep ==
    /\ sweeper_pc = "clean"
    /\ sweep_todo = {}
    /\ sweeper_pc' = "sleep"
    /\ UNCHANGED <<pending_responses, next_message_id, now, should_stop, sweep_todo,
                   callback_response, deliveries, registrations, unknown_responses,
                   driver_calls>>
    /\ UNCHANGED node_vars
    /\ UNCHANGED table_vars
    /\ UNCHANGED <<server_vars, unit_vars>>

Sweeper == SweeperWake \/ (\E message_id \in MessageIds : CleanShard(message_id)) \/ SweeperSleep

\* time passes: up to MaxTime, and for as long as an entry of the waiting
\* list has yet to expire
Tick ==
    /\ \/ now < MaxTime
       \/ \E message_id \in DOMAIN pending_responses :
              ~has_expired(pending_responses[message_id])
    /\ now' = now + 1
    /\ UNCHANGED <<pending_responses, next_message_id, should_stop, sweeper_pc,
                   sweep_todo, callback_response, deliveries, registrations,
                   unknown_responses, driver_calls>>
    /\ UNCHANGED node_vars
    /\ UNCHANGED table_vars
    /\ UNCHANGED <<server_vars, unit_vars>>

\* the largest and the smallest value of the signed counter
MaxMessageId == 2 ^ (CounterBits - 1) - 1

MinMessageId == 0 - 2 ^ (CounterBits - 1)

\* a fetch_add that leaves the counter where it is
fetch_add_nothing(value, delta) == value

\* AtomicI64::fetch_add, the value it stores: the sum, wrapped around on
\* overflow
fetch_add(value, delta) ==
    ((value + delta - MinMessageId) % 2 ^ CounterBits) + MinMessageId

\* AsyncNetwork::generate_next_message_id: fetch_add returns the old value
generate_next_message_id(network) == next_message_id[network]

\* ------------------------------------------------------------------------
\* The waiting list under its callers: registrations with generated ids,
\* replies and errors for any id, the sweeper, the clock
\* ------------------------------------------------------------------------

WLInit ==
    /\ UnitAtRest
    /\ pending_responses = <<>>
    /\ next_message_id = [network \in Networks |-> 1]
    /\ now = 0
    /\ should_stop = FALSE
    /\ sweeper_pc = "sleep"
    /\ sweep_todo = {}
    /\ callback_response = <<>>
    /\ deliveries = <<>>
    /\ registrations = <<>>
    /\ unknown_responses = {}
    /\ driver_calls = 0
    /\ queue = [executor \in Networks |-> <<>>]
    /\ receiver_open = [executor \in Networks |-> TRUE]
    /\ worker_pc = [executor \in Networks |-> "recv"]
    /\ worker_message = [executor \in Networks |-> None]
    /\ add_node_local = None
    /\ message_response = <<>>
    /\ store = <<>>
    /\ buckets = EmptyTable
    /\ peer_received = {}
    /\ sent = {}
    /\ spawned = {}
    /\ submissions = <<>>
    /\ dequeued = [executor \in Networks |-> <<>>]
    /\ response_sends = <<>>
    /\ handler_returned = {}
    /\ answered_in_time = {}
    /\ thread_state = [thread \in Threads |-> Idle]
    /\ returns = <<>>
    /\ last_call = None
    /\ connections = <<>>

\* a caller registers a new callback under the next id of its network
Register ==
    /\ Len(callback_response) < MaxCallbacks
    /\ LET message_id == generate_next_message_id("AddNodeExecutor")
       IN  /\ next_message_id' =
                  [next_message_id EXCEPT !["AddNodeExecutor"] = fetch_add(message_id, 1)]
           /\ callback_response' = Append(callback_response, None)
           /\ deliveries' = Append(deliveries, <<>>)
           /\ WaitingListAdd(message_id, NewCallback)
    /\ UNCHANGED <<now, should_stop, sweeper_pc, sweep_todo, unknown_responses,
                   driver_calls>>
    /\ UNCHANGED node_vars
    /\ UNCHANGED table_vars
    /\ UNCHANGED <<server_vars, unit_vars>>

\* a caller hands in a reply, or an error, for some id
HandleResponse(message_id, response) ==
    /\ driver_calls < MaxResponses
    /\ driver_calls' = driver_calls + 1
    /\ WaitingListHandleResponse(message_id, response)
    /\ UNCHANGED <<next_message_id, now, should_stop, sweeper_pc, sweep_todo,
                   registrations>>
    /\ UNCHANGED node_vars
    /\ UNCHANGED table_vars
    /\ UNCHANGED <<server_vars, unit_vars>>

WLNext ==
    \/ Register
    \/ \E message_id \in MessageIds \cup {MaxCallbacks + 1},
          response \in {OkResponse("PingReply"), TestError} :
            HandleResponse(message_id, response)
    \/ Sweeper
    \/ Tick
    \/ Stop

WLSpec == WLInit /\ [][WLNext]_vars

\* the sweeper thread and the clock keep running
WLFairSpec == WLSpec /\ WF_vars(Sweeper) /\ WF_vars(Tick)

\* ------------------------------------------------------------------------
\* The waiting list under callers that choose the id they add under, as the
\* tests of src/net/wait.rs do: an id may be added again while its entry is
\* pending
\* ------------------------------------------------------------------------

\* WaitingList::add of a new callback under the id
AddUnder(message_id) ==
    /\ Len(callback_response) < MaxCallbacks
    /\ callback_response' = Append(callback_response, None)
    /\ deliveries' = Append(deliveries, <<>>)
    /\ WaitingListAdd(message_id, NewCallback)
    /\ UNCHANGED <<next_message_id, now, should_stop, sweeper_pc, sweep_todo,
                   unknown_responses, driver_calls>>
    /\ UNCHANGED <<node_vars, table_vars, server_vars, unit_vars>>

AddNext ==
    \/ \E message_id \in MessageIds : AddUnder(message_id)
    \/ \E message_id \in MessageIds \cup {MaxCallbacks + 1},
          response \in {OkResponse("PingReply"), TestError} :
            HandleResponse(message_id, response)
    \/ Sweeper
    \/ Tick
    \/ Stop

AddSpec == WLInit /\ [][AddNext]_vars

\* ------------------------------------------------------------------------
\* One AsyncNetwork under concurrent callers of generate_next_message_id
\* (src/net/mod.rs)
\* ------------------------------------------------------------------------

\* the calls made so far: those that returned and those in progress
CallsIssued ==
    LET returned[task \in 0..NetworkTasks] ==
            IF task = 0 THEN 0 ELSE returned[task - 1] + Len(task_ids[task])
    IN  returned[NetworkTasks] + Cardinality({task \in Tasks : task_pc[task] = "calling"})

\* a task calls generate_next_message_id
GenerateCall(task) ==
    /\ task_pc[task] = "idle"
    /\ CallsIssued < MaxIds
    /\ task_pc' = [task_pc EXCEPT ![task] = "calling"]
    /\ UNCHANGED <<reply_arguments, reply_constructed>>
    /\ UNCHANGED <<task_ids, id_pair, id_measured, on_response_by, waker_state, woken>>
    /\ UNCHANGED <<wl_vars, node_vars, table_vars, server_vars>>

\* the fetch_add of the call, one atomic step, and the return of the id
GenerateReturn(task) ==
    /\ task_pc[task] = "calling"
    /\ LET message_id == generate_next_message_id("AddNodeExecutor")
       IN  /\ next_message_id' =
                  [next_message_id EXCEPT !["AddNodeExecutor"] = fetch_add(message_id, 1)]
           /\ task_ids' = [task_ids EXCEPT ![task] = Append(@, message_id)]
    /\ task_pc' = [task_pc EXCEPT ![task] = "idle"]
    /\ UNCHANGED <<reply_arguments, reply_constructed>>
    /\ UNCHANGED <<id_pair, id_measured, on_response_by, waker_state, woken>>
    /\ UNCHANGED <<pending_responses, now, should_stop, sweeper_pc, sweep_todo,
                   callback_response, deliveries, registrations, unknown_responses,
                   driver_calls>>
    /\ UNCHANGED <<node_vars, table_vars, server_vars>>

GenerateNext == \E task \in Tasks : GenerateCall(task) \/ GenerateReturn(task)

GenerateSpec == WLInit /\ [][GenerateNext]_vars

\* ------------------------------------------------------------------------
\* One AsyncNetwork that registers every id it sends under, the sweeper and
\* the clock (src/net/mod.rs, src/net/wait.rs)
\* ------------------------------------------------------------------------

\* AsyncNetwork::send_with_message_id_expect_reply: the id is generated, the
\* message is written, and whether or not the write reached the endpoint a
\* new callback is added to the waiting list under the id
NetworkSend ==
    /\ LET message_id == generate_next_message_id("AddNodeExecutor")
       IN  /\ next_message_id' =
                  [next_message_id EXCEPT !["AddNodeExecutor"] = fetch_add(message_id, 1)]
           /\ pending_responses' =
                  insert(pending_responses, message_id, TimedCallback(message_id, now))
    /\ UNCHANGED <<now, should_stop, sweeper_pc, sweep_todo, callback_response,
                   deliveries, registrations, unknown_responses, driver_calls>>
    /\ UNCHANGED <<node_vars, table_vars, server_vars, unit_vars>>

\* one pass of ExpiredPendingResponsesCleaner::clean: retain drops every
\* expired entry
NetworkClean ==
    /\ ~should_stop
    /\ \E message_id \in DOMAIN pending_responses :
           has_expired(pending_responses[message_id])
    /\ pending_responses' =
           [message_id \in {id \in DOMAIN pending_responses :
                               ~has_expired(pending_responses[id])} |->
               pending_responses[message_id]]
    /\ UNCHANGED <<next_message_id, now, should_stop, sweeper_pc, sweep_todo,
                   callback_response, deliveries, registrations, unknown_responses,
                   driver_calls>>
    /\ UNCHANGED <<node_vars, table_vars, server_vars, unit_vars>>

\* time passes, up to MaxTime
NetworkTick == now < MaxTime /\ Tick

NetworkNext ==
    \/ NetworkSend
    \/ NetworkClean
    \/ NetworkTick

NetworkSpec == WLInit /\ [][NetworkNext]_vars

\* ------------------------------------------------------------------------
\* Executors (src/executor/message.rs, src/executor/node.rs) and the
\* message actions (src/executor/message_action.rs)
\* ------------------------------------------------------------------------

ChanneledMessage(message, response_sender) ==
    [message |-> message, response_sender |-> response_sender]

\* the arms of the match in MessageExecutor::start and AddNodeExecutor::start
handles(executor, type) ==
    IF executor = "MessageExecutor"
    THEN type \in {"Store", "FindValue", "FindNode", "Ping", "ShutDown"} \cup ReplyTypes
    ELSE type \in {"AddNode", "ShutDown"}

\* arms whose Ping arm hands the status of a reply to send_response
message_status_ping_as_reply(type) ==
    CASE type = "Store" -> "StoreDone"
      [] type = "FindValue" -> "FindValueDone"
      [] type = "FindNode" -> "FindValueDone"
      [] type \in ReplyTypes \cup {"Ping"} -> "ReplyDone"
      [] type = "AddNode" -> "AddNodeDone"
      [] type = "ShutDown" -> "ShutdownDone"

\* the MessageStatus each arm hands to send_response
message_status(type) ==
    CASE type = "Store" -> "StoreDone"
      [] type = "FindValue" -> "FindValueDone"
      [] type = "FindNode" -> "FindValueDone"
      [] type = "Ping" -> "PingDone"
      [] type \in ReplyTypes -> "ReplyDone"
      [] type = "AddNode" -> "AddNodeDone"
      [] type = "ShutDown" -> "ShutdownDone"

\* a send_response that always lands on the channel of the first submission
\* a send_response that sends nothing
send_response_lost(responses, response_sender, status) == responses

send_response_to_first(responses, response_sender, status) ==
    [responses EXCEPT ![1] = status]

\* ChanneledMessage::send_response on the one-shot channel of the submission
send_response(responses, response_sender, status) ==
    [responses EXCEPT ![response_sender] = status]

\* a ChanneledMessage is dropped without a send: its receiver gets RecvError
drop_channeled(responses, channeled_messages) ==
    [rid \in DOMAIN responses |->
        IF \E i \in 1..Len(channeled_messages) :
              channeled_messages[i].response_sender = rid
        THEN "RecvError" ELSE responses[rid]]

\* a receiver that stays open
keep_receiver(open, executor) == open

\* drop(receiver): the channel is closed
drop_receiver(open, executor) == [open EXCEPT ![executor] = FALSE]

\* a receive that takes the newest message of the queue
recv_newest(channeled_messages) ==
    <<channeled_messages[Len(channeled_messages)],
      SubSeq(channeled_messages, 1, Len(channeled_messages) - 1)>>

\* Receiver::recv: <<the oldest message of the queue, the queue left>>
recv(channeled_messages) == <<Head(channeled_messages), Tail(channeled_messages)>>

\* some ShutdownDone of this executor has been received by its submitter
ShutdownDoneReceived(executor) ==
    \E rid \in 1..Len(submissions) :
        /\ submissions[rid].executor = executor
        /\ message_response[rid] = "ShutdownDone"

\* Sender::send of a ChanneledMessage with a new one-shot channel
Enqueue(executor, message) ==
    /\ IF receiver_open[executor]
       THEN /\ Len(queue[executor]) < QueueCapacity
            /\ queue' = [queue EXCEPT ![executor] =
                            Append(@, ChanneledMessage(message, Len(submissions) + 1))]
            /\ message_response' = Append(message_response, "pending")
       ELSE /\ message_response' = Append(message_response, "QueueClosed")
            /\ UNCHANGED queue
    /\ submissions' = Append(submissions,
           [executor |-> executor, message |-> message,
            accepted |-> receiver_open[executor],
            after_shutdown_done |-> ShutdownDoneReceived(executor),
            from_peer |-> /\ message.type = "PingReply"
                          /\ unwrap(message.message_id) \in peer_received])
    /\ response_sends' = Append(response_sends, 0)
    /\ UNCHANGED <<receiver_open, worker_pc, worker_message, add_node_local, store,
                   buckets, peer_received, sent, spawned, dequeued, handler_returned,
                   answered_in_time>>
    /\ UNCHANGED wl_vars
    /\ UNCHANGED table_vars
    /\ UNCHANGED unit_vars

\* MessageExecutor::submit and AddNodeExecutor::submit
Submit(executor, message) ==
    /\ Len(submissions) < MaxSubmits
    /\ Enqueue(executor, message)
    /\ UNCHANGED server_vars

\* receiver.recv().await in the loop of start
Recv(executor) ==
    /\ worker_pc[executor] = "recv"
    /\ queue[executor] # <<>>
    /\ LET received == recv(queue[executor])
       IN  /\ worker_message' = [worker_message EXCEPT ![executor] = Some(received[1])]
           /\ queue' = [queue EXCEPT ![executor] = received[2]]
           /\ dequeued' = [dequeued EXCEPT ![executor] =
                              Append(@, received[1].response_sender)]
    /\ worker_pc' = [worker_pc EXCEPT ![executor] = "act"]
    /\ UNCHANGED <<receiver_open, add_node_local, message_response, store, buckets,
                   peer_received, sent, spawned, submissions, response_sends,
                   handler_returned, answered_in_time>>
    /\ UNCHANGED wl_vars
    /\ UNCHANGED table_vars
    /\ UNCHANGED <<server_vars, unit_vars>>

\* the message the worker of the executor is working on, and its submission
Current(executor) == unwrap(worker_message[executor])

Acting(executor, types) ==
    /\ worker_pc[executor] = "act"
    /\ Current(executor).message.type \in types

\* an arm that takes the next message once its handler has returned, with
\* no send_response
ReturnedToRecv(executor) ==
    /\ worker_pc' = [worker_pc EXCEPT ![executor] = "recv"]
    /\ handler_returned' = handler_returned \cup {Current(executor).response_sender}

\* the handler of the arm has returned: send_response comes next
Returned(executor) ==
    /\ worker_pc' = [worker_pc EXCEPT ![executor] = "respond"]
    /\ handler_returned' = handler_returned \cup {Current(executor).response_sender}

\* a put_or_update that stores nothing
put_nothing(value_by_key, key, key_id, value) == value_by_key

\* Store::put_or_update and Store::get of the InMemoryStore
put_or_update(value_by_key, key, key_id, value) ==
    [k \in DOMAIN value_by_key \cup {key} |->
        IF k = key THEN [key_id |-> key_id, value |-> value] ELSE value_by_key[k]]

get(value_by_key, key) ==
    IF key \in DOMAIN value_by_key THEN Some(value_by_key[key].value) ELSE None

\* StoreKeyValueMessageAction::act_on
ActStore ==
    /\ Acting("MessageExecutor", {"Store"})
    /\ LET message == Current("MessageExecutor").message
       IN  store' = put_or_update(store, unwrap(message.key), unwrap(message.key_id),
                                  unwrap(message.value))
    /\ Returned("MessageExecutor")
    /\ UNCHANGED <<queue, receiver_open, worker_message, add_node_local,
                   message_response, buckets, peer_received, sent, spawned, submissions,
                   dequeued, response_sends, answered_in_time>>
    /\ UNCHANGED wl_vars
    /\ UNCHANGED table_vars
    /\ UNCHANGED <<server_vars, unit_vars>>

\* SendPingReplyMessageAction::act_on: the send is left to a spawned task
ActPing ==
    /\ Acting("MessageExecutor", {"Ping"})
    /\ LET channeled == Current("MessageExecutor")
       IN  spawned' = spawned \cup
               {[by |-> channeled.response_sender,
                 message_id |-> channeled.message.message_id,
                 from |-> unwrap(channeled.message.source)]}
    /\ Returned("MessageExecutor")
    /\ UNCHANGED <<queue, receiver_open, worker_message, add_node_local,
                   message_response, store, buckets, peer_received, sent, submissions,
                   dequeued, response_sends, answered_in_time>>
    /\ UNCHANGED wl_vars
    /\ UNCHANGED table_vars
    /\ UNCHANGED <<server_vars, unit_vars>>

\* AsyncNetwork::send: connect_and_write reaches the endpoint or fails
send(written, by, message, endpoint, reached) ==
    IF reached
    THEN written \cup {[by |-> by, message |-> message, endpoint |-> endpoint]}
    ELSE written

\* the task SendPingReplyMessageAction spawned: it panics on the assertion
\* when the ping has no message id, else it sends the PingReply
PingReplyTask(task, reached) ==
    /\ task \in spawned
    /\ spawned' = spawned \ {task}
    /\ IF is_some(task.message_id)
       THEN sent' = send(sent, task.by,
                         ping_reply_type(CurrentNode, unwrap(task.message_id)),
                         task.from.node_endpoint, reached)
       ELSE UNCHANGED sent
    /\ UNCHANGED <<queue, receiver_open, worker_pc, worker_message, add_node_local,
                   message_response, store, buckets, peer_received, submissions,
                   dequeued, response_sends, handler_returned, answered_in_time>>
    /\ UNCHANGED wl_vars
    /\ UNCHANGED table_vars
    /\ UNCHANGED <<server_vars, unit_vars>>

sources_of(closest) == [i \in 1..Len(closest.nodes) |-> NewSource(closest.nodes[i])]

\* FindValueMessageAction::act_on
find_value_reply(value_by_key, table, message) ==
    LET value == get(value_by_key, unwrap(message.key))
        neighbors == closest_neighbors(table, unwrap(message.key_id), NeighborsInReply)
    IN  IF value = None
        THEN find_value_reply_type(unwrap(message.message_id), None,
                                   Some(sources_of(neighbors)))
        ELSE find_value_reply_type(unwrap(message.message_id), value, None)

ActFindValue(reached) ==
    /\ Acting("MessageExecutor", {"FindValue"})
    /\ LET channeled == Current("MessageExecutor")
           message == channeled.message
       IN  IF message.message_id = None
           THEN UNCHANGED sent
           ELSE sent' = send(sent, channeled.response_sender,
                             find_value_reply(store, buckets, message),
                             unwrap(message.source).node_endpoint, reached)
    /\ Returned("MessageExecutor")
    /\ UNCHANGED <<queue, receiver_open, worker_message, add_node_local,
                   message_response, store, buckets, peer_received, spawned, submissions,
                   dequeued, response_sends, answered_in_time>>
    /\ UNCHANGED wl_vars
    /\ UNCHANGED table_vars
    /\ UNCHANGED <<server_vars, unit_vars>>

\* a FindNodeReply that names no neighbor
find_node_reply_empty(table, message) ==
    find_node_reply_type(unwrap(message.message_id), <<>>)

\* FindNodeMessageAction::act_on
find_node_reply(table, message) ==
    find_node_reply_type(
        unwrap(message.message_id),
        sources_of(closest_neighbors(table, unwrap(message.node_id), NeighborsInReply)))

ActFindNode(reached) ==
    /\ Acting("MessageExecutor", {"FindNode"})
    /\ LET channeled == Current("MessageExecutor")
           message == channeled.message
       IN  IF message.message_id = None
           THEN UNCHANGED sent
           ELSE sent' = send(sent, channeled.response_sender,
                             find_node_reply(buckets, message),
                             unwrap(message.source).node_endpoint, reached)
    /\ Returned("MessageExecutor")
    /\ UNCHANGED <<queue, receiver_open, worker_message, add_node_local,
                   message_response, store, buckets, peer_received, spawned, submissions,
                   dequeued, response_sends, answered_in_time>>
    /\ UNCHANGED wl_vars
    /\ UNCHANGED table_vars
    /\ UNCHANGED <<server_vars, unit_vars>>

\* no timeout has been delivered for the id so far
NotTimedOut(message_id) ==
    \A callback \in 1..Len(registrations) :
        registrations[callback].message_id = message_id =>
            \A i \in 1..Len(deliveries[callback]) : deliveries[callback][i].response.ok

\* the arm of the replies: waiting_list.handle_response(message_id, Ok(message))
ActReply ==
    /\ Acting("MessageExecutor", ReplyTypes)
    /\ LET message == Current("MessageExecutor").message
           message_id == unwrap(message.message_id)
           submission == submissions[Current("MessageExecutor").response_sender]
       IN  /\ WaitingListHandleResponse(message_id, OkResponse(message.type))
           /\ answered_in_time' =
                  IF submission.from_peer /\ NotTimedOut(message_id)
                  THEN answered_in_time \cup {message_id}
                  ELSE answered_in_time
    /\ Returned("MessageExecutor")
    /\ UNCHANGED <<queue, receiver_open, worker_message, add_node_local,
                   message_response, store, buckets, peer_received, sent, spawned,
                   submissions, dequeued, response_sends>>
    /\ UNCHANGED <<next_message_id, now, should_stop, sweeper_pc, sweep_todo,
                   registrations, driver_calls>>
    /\ UNCHANGED table_vars
    /\ UNCHANGED <<server_vars, unit_vars>>

\* the ShutDown arm, up to its send_response: drop(receiver) closes the queue
\* and drops the messages still in it
ActShutDown(executor) ==
    /\ Acting(executor, {"ShutDown"})
    /\ receiver_open' = drop_receiver(receiver_open, executor)
    /\ message_response' = drop_channeled(message_response, queue[executor])
    /\ queue' = [queue EXCEPT ![executor] = <<>>]
    /\ Returned(executor)
    /\ UNCHANGED <<worker_message, add_node_local, store, buckets, peer_received, sent,
                   spawned, submissions, dequeued, response_sends, answered_in_time>>
    /\ UNCHANGED wl_vars
    /\ UNCHANGED table_vars
    /\ UNCHANGED <<server_vars, unit_vars>>

\* the arm "_ => {}": the ChanneledMessage is dropped, nothing is sent
ActUnhandled(executor) ==
    /\ worker_pc[executor] = "act"
    /\ ~handles(executor, Current(executor).message.type)
    /\ message_response' = drop_channeled(message_response, <<Current(executor)>>)
    /\ worker_pc' = [worker_pc EXCEPT ![executor] = "recv"]
    /\ worker_message' = [worker_message EXCEPT ![executor] = None]
    /\ UNCHANGED <<queue, receiver_open, add_node_local, store, buckets, peer_received,
                   sent, spawned, submissions, dequeued, response_sends,
                   handler_returned, answered_in_time>>
    /\ UNCHANGED wl_vars
    /\ UNCHANGED table_vars
    /\ UNCHANGED <<server_vars, unit_vars>>

\* channeled_message.send_response(status) of the arm; after ShutDown the
\* worker returns, after any other message it loops
Respond(executor) ==
    /\ worker_pc[executor] = "respond"
    /\ LET channeled == Current(executor)
           type == channeled.message.type
       IN  /\ message_response' = send_response(message_response,
                                                channeled.response_sender,
                                                message_status(type))
           /\ response_sends' = [response_sends EXCEPT ![channeled.response_sender] = @ + 1]
           /\ worker_pc' = [worker_pc EXCEPT ![executor] =
                               IF type = "ShutDown" THEN "returned" ELSE "recv"]
    /\ worker_message' = [worker_message EXCEPT ![executor] = None]
    /\ add_node_local' = IF executor = "AddNodeExecutor" THEN None ELSE add_node_local
    /\ UNCHANGED <<queue, receiver_open, store, buckets, peer_received, sent, spawned,
                   submissions, dequeued, handler_returned, answered_in_time>>
    /\ UNCHANGED wl_vars
    /\ UNCHANGED table_vars
    /\ UNCHANGED <<server_vars, unit_vars>>

\* AddNodeAction::act_on up to the ping: routing_table.add, first_node_in,
\* ResponseAwaitingCallback::new, then generate_next_message_id and
\* set_message_id in send_with_message_id_expect_reply
AddNodeStart ==
    /\ Acting("AddNodeExecutor", {"AddNode"})
    /\ LET node == to_node(unwrap(Current("AddNodeExecutor").message.source))
           result == add(buckets, node)
           oldest == first_node_in(result.buckets, result.bucket_index)
           message_id == generate_next_message_id("AddNodeExecutor")
       IN  /\ buckets' = result.buckets
           /\ IF result.added \/ oldest = None
              THEN /\ Returned("AddNodeExecutor")
                   /\ UNCHANGED <<add_node_local, callback_response, deliveries,
                                  next_message_id>>
              ELSE /\ Len(callback_response) < MaxCallbacks
                   /\ callback_response' = Append(callback_response, None)
                   /\ deliveries' = Append(deliveries, <<>>)
                   /\ next_message_id' =
                          [next_message_id EXCEPT !["AddNodeExecutor"] = fetch_add(message_id, 1)]
                   /\ add_node_local' = Some(
                          [bucket_index |-> result.bucket_index,
                           node |-> unwrap(oldest),
                           source |-> node,
                           callback |-> NewCallback,
                           message |-> set_message_id(ping_type(CurrentNode), message_id),
                           send_result |-> None,
                           before |-> buckets])
                   /\ worker_pc' = [worker_pc EXCEPT !["AddNodeExecutor"] = "connect"]
                   /\ UNCHANGED handler_returned
    /\ UNCHANGED <<queue, receiver_open, worker_message, message_response, store,
                   peer_received, sent, spawned, submissions, dequeued, response_sends,
                   answered_in_time>>
    /\ UNCHANGED <<pending_responses, now, should_stop, sweeper_pc, sweep_todo,
                   registrations, unknown_responses, driver_calls>>
    /\ UNCHANGED table_vars
    /\ UNCHANGED <<server_vars, unit_vars>>

Probe == unwrap(add_node_local)

ProbeId == unwrap(Probe.message.message_id)

\* connect_and_write(message, endpoint).await: the peer reads the ping, or
\* the connection or the write fails
AddNodeConnect(reached) ==
    /\ worker_pc["AddNodeExecutor"] = "connect"
    /\ sent' = send(sent, Current("AddNodeExecutor").response_sender, Probe.message,
                    Probe.node.endpoint, reached)
    /\ peer_received' = IF reached THEN peer_received \cup {ProbeId} ELSE peer_received
    /\ add_node_local' = Some([Probe EXCEPT !.send_result =
                                  Some(IF reached THEN "Ok" ELSE "Err")])
    /\ worker_pc' = [worker_pc EXCEPT !["AddNodeExecutor"] = "register"]
    /\ UNCHANGED <<queue, receiver_open, worker_message, message_response, store,
                   buckets, spawned, submissions, dequeued, response_sends,
                   handler_returned, answered_in_time>>
    /\ UNCHANGED wl_vars
    /\ UNCHANGED table_vars
    /\ UNCHANGED <<server_vars, unit_vars>>

\* the probed node did not answer: routing_table.remove_and_add, which
\* panics when one of its assertions fails
Evict ==
    IF remove_and_add_asserts(Probe.bucket_index, Probe.node, Probe.source)
    THEN /\ buckets' = remove_and_add(buckets, Probe.bucket_index, Probe.node,
                                      Probe.source)
         /\ Returned("AddNodeExecutor")
    ELSE /\ worker_pc' = [worker_pc EXCEPT !["AddNodeExecutor"] = "panicked"]
         /\ UNCHANGED <<buckets, handler_returned>>

\* the rest of send_with_message_id_expect_reply, after the await of
\* connect_and_write: waiting_list.add, then send_result goes to act_on,
\* which evicts at once when the send failed
AddNodeRegister ==
    /\ worker_pc["AddNodeExecutor"] = "register"
    /\ WaitingListAdd(ProbeId, Probe.callback)
    /\ IF Probe.send_result = Some("Ok")
       THEN /\ worker_pc' = [worker_pc EXCEPT !["AddNodeExecutor"] = "await"]
            /\ UNCHANGED <<buckets, handler_returned>>
       ELSE Evict
    /\ UNCHANGED <<queue, receiver_open, worker_message, add_node_local,
                   message_response, store, peer_received, sent, spawned, submissions,
                   dequeued, response_sends, answered_in_time>>
    /\ UNCHANGED <<next_message_id, now, should_stop, sweeper_pc, sweep_todo,
                   callback_response, deliveries, unknown_responses, driver_calls>>
    /\ UNCHANGED table_vars
    /\ UNCHANGED <<server_vars, unit_vars>>

\* Future::poll of the callback handle: Pending until on_response has stored
\* a response, then ResponseStatus::Ok or ResponseStatus::Err
poll(callback) ==
    IF callback_response[callback] = None THEN None
    ELSE IF unwrap(callback_response[callback]).ok THEN Some("Ok") ELSE Some("Err")

\* callback.handle().await in act_on, and the eviction on ResponseStatus::Err
AddNodeAwait ==
    /\ worker_pc["AddNodeExecutor"] = "await"
    /\ poll(Probe.callback) # None
    /\ IF poll(Probe.callback) = Some("Err")
       THEN Evict
       ELSE /\ Returned("AddNodeExecutor")
            /\ UNCHANGED buckets
    /\ UNCHANGED <<queue, receiver_open, worker_message, add_node_local,
                   message_response, store, peer_received, sent, spawned, submissions,
                   dequeued, response_sends, answered_in_time>>
    /\ UNCHANGED wl_vars
    /\ UNCHANGED table_vars
    /\ UNCHANGED <<server_vars, unit_vars>>

\* ------------------------------------------------------------------------
\* The node: both executors behind the connection handler, the sweeper and
\* the clock, fed with inbound messages
\* ------------------------------------------------------------------------

\* the nodes that ask to be added: BucketCapacity + 1 of them fall into the
\* bucket of id 511 (index 8), one into the bucket of id 247 (index 3)
SameBucketNodes == [i \in 1..(BucketCapacity + 1) |-> NewNodeWithId(8000 + i, IdOf(512 - i))]

OtherBucketNode == NewNodeWithId(7000, IdOf(247))

Requester == NewNodeWithId(7565, IdOf(249))

MessageExecutorInputs ==
    {store_type("kademlia", "distributed hash table", Requester),
     store_type("store type", "in-memory", Requester),
     set_message_id(ping_type(Requester), 10),
     set_message_id(find_value_type(Requester, "kademlia"), 100),
     set_message_id(find_node_type(Requester), 101),
     find_value_reply_type(1, Some("distributed hash table"), None),
     find_node_reply_type(1, <<>>),
     add_node_type(Requester),
     shutdown_type}
    \cup {ping_reply_type(SameBucketNodes[1], message_id) : message_id \in MessageIds}

AddNodeExecutorInputs ==
    {add_node_type(SameBucketNodes[i]) : i \in 1..(BucketCapacity + 1)}
    \cup {add_node_type(OtherBucketNode), shutdown_type,
          set_message_id(ping_type(Requester), 10)}

\* the table already holds the first nodes of the bucket, added in order
Init ==
    /\ UnitAtRest
    /\ pending_responses = <<>>
    /\ next_message_id = [network \in Networks |-> 1]
    /\ now = 0
    /\ should_stop = FALSE
    /\ sweeper_pc = "sleep"
    /\ sweep_todo = {}
    /\ callback_response = <<>>
    /\ deliveries = <<>>
    /\ registrations = <<>>
    /\ unknown_responses = {}
    /\ driver_calls = 0
    /\ queue = [executor \in Networks |-> <<>>]
    /\ receiver_open = [executor \in Networks |-> TRUE]
    /\ worker_pc = [executor \in Networks |-> "recv"]
    /\ worker_message = [executor \in Networks |-> None]
    /\ add_node_local = None
    /\ message_response = <<>>
    /\ store = <<>>
    /\ \E held \in {0, BucketCapacity} :
          buckets = [EmptyTable EXCEPT ![bucket_index(SameBucketNodes[1].id)] =
                        SubSeq(SameBucketNodes, 1, held)]
    /\ peer_received = {}
    /\ sent = {}
    /\ spawned = {}
    /\ submissions = <<>>
    /\ dequeued = [executor \in Networks |-> <<>>]
    /\ response_sends = <<>>
    /\ handler_returned = {}
    /\ answered_in_time = {}
    /\ thread_state = [thread \in Threads |-> Idle]
    /\ returns = <<>>
    /\ last_call = None
    /\ connections = <<>>

Next ==
    \/ \E message \in MessageExecutorInputs : Submit("MessageExecutor", message)
    \/ \E message \in AddNodeExecutorInputs : Submit("AddNodeExecutor", message)
    \/ \E executor \in Networks : Recv(executor)
    \/ ActStore
    \/ ActPing
    \/ \E task \in spawned, reached \in BOOLEAN : PingReplyTask(task, reached)
    \/ \E reached \in BOOLEAN : ActFindValue(reached)
    \/ \E reached \in BOOLEAN : ActFindNode(reached)
    \/ ActReply
    \/ \E executor \in Networks : ActShutDown(executor)
    \/ \E executor \in Networks : ActUnhandled(executor)
    \/ \E executor \in Networks : Respond(executor)
    \/ AddNodeStart
    \/ \E reached \in BOOLEAN : AddNodeConnect(reached)
    \/ AddNodeRegister
    \/ AddNodeAwait
    \/ Sweeper
    \/ Tick

Spec == Init /\ [][Next]_vars

\* the sweeper thread and the clock keep running
FairSpec == Spec /\ WF_vars(Sweeper) /\ WF_vars(Tick)

\* ------------------------------------------------------------------------
\* The add-node worker, the sweeper and the MessageExecutor at the level of
\* the two locks of a ResponseAwaitingCallbackHandle (src/net/callback.rs):
\* on_response takes the response lock for writing, then the waker lock;
\* poll takes the waker lock, then the response lock for reading
\* ------------------------------------------------------------------------

\* the response lock of the callback is held for writing by some thread
WriteLocked(callback) ==
    \E thread \in Responders :
        on_response_by[thread] # None /\ unwrap(on_response_by[thread]).callback = callback

\* the waker lock of the callback is held: by the poll of the add-node worker
WakerLocked(callback) ==
    worker_pc["AddNodeExecutor"] = "poll_read" /\ Probe.callback = callback

\* on_response up to the waker lock: response.write(), *guard = Some(response)
OnResponseStore(thread, message_id, callback, response) ==
    /\ callback_response' = on_response(callback_response, callback, response)
    /\ deliveries' = Delivered(callback, response)
    /\ on_response_by' = [on_response_by EXCEPT ![thread] =
                             Some([callback |-> callback, message_id |-> message_id])]

\* the rest of on_response: waker_state.lock(), wake_by_ref on the waker if
\* one is stored, and both guards dropped
OnResponseWake(thread) ==
    /\ on_response_by[thread] # None
    /\ ~WakerLocked(unwrap(on_response_by[thread]).callback)
    /\ woken' = (woken \/ unwrap(on_response_by[thread]).callback \in waker_state)
    /\ on_response_by' = [on_response_by EXCEPT ![thread] = None]

\* one shard of the retain pass of clean: an expired entry gets the timeout
\* error, its shard staying locked while on_response runs
LockCleanShard(message_id) ==
    /\ sweeper_pc = "clean"
    /\ message_id \in sweep_todo
    /\ IF /\ message_id \in DOMAIN pending_responses
          /\ has_expired(pending_responses[message_id])
       THEN /\ OnResponseStore("Sweeper", message_id,
                               pending_responses[message_id].callback,
                               ResponseTimeoutError(message_id))
            /\ sweeper_pc' = "on_response"
            /\ UNCHANGED sweep_todo
       ELSE /\ sweep_todo' = sweep_todo \ {message_id}
            /\ UNCHANGED <<callback_response, deliveries, on_response_by, sweeper_pc>>
    /\ UNCHANGED <<pending_responses, next_message_id, now, should_stop, registrations,
                   unknown_responses, driver_calls>>
    /\ UNCHANGED <<node_vars, table_vars, server_vars>>
    /\ UNCHANGED <<reply_arguments, reply_constructed>>
    /\ UNCHANGED <<task_pc, task_ids, id_pair, id_measured, waker_state, woken>>

\* on_response returns to the retain pass, which drops the entry
LockCleanWake ==
    /\ sweeper_pc = "on_response"
    /\ OnResponseWake("Sweeper")
    /\ pending_responses' =
           remove(pending_responses, unwrap(on_response_by["Sweeper"]).message_id)
    /\ sweep_todo' = sweep_todo \ {unwrap(on_response_by["Sweeper"]).message_id}
    /\ sweeper_pc' = "clean"
    /\ UNCHANGED <<next_message_id, now, should_stop, callback_response, deliveries,
                   registrations, unknown_responses, driver_calls>>
    /\ UNCHANGED <<node_vars, table_vars, server_vars>>
    /\ UNCHANGED <<reply_arguments, reply_constructed>>
    /\ UNCHANGED <<task_pc, task_ids, id_pair, id_measured, waker_state>>

LockSweeper ==
    \/ SweeperWake
    \/ \E message_id \in MessageIds : LockCleanShard(message_id)
    \/ LockCleanWake
    \/ SweeperSleep

\* the arm of the replies: handle_response removes the entry, once the
\* sweeper does not hold its shard, and calls on_response
LockActReply ==
    /\ Acting("MessageExecutor", ReplyTypes)
    /\ LET message == Current("MessageExecutor").message
           message_id == unwrap(message.message_id)
           submission == submissions[Current("MessageExecutor").response_sender]
       IN  /\ on_response_by["Sweeper"] # None =>
                  unwrap(on_response_by["Sweeper"]).message_id # message_id
           /\ answered_in_time' =
                  IF submission.from_peer /\ NotTimedOut(message_id)
                  THEN answered_in_time \cup {message_id}
                  ELSE answered_in_time
           /\ IF message_id \in DOMAIN pending_responses
              THEN /\ pending_responses' = remove(pending_responses, message_id)
                   /\ OnResponseStore("MessageExecutor", message_id,
                                      pending_responses[message_id].callback,
                                      OkResponse(message.type))
                   /\ worker_pc' = [worker_pc EXCEPT !["MessageExecutor"] = "on_response"]
                   /\ UNCHANGED <<unknown_responses, handler_returned>>
              ELSE /\ unknown_responses' = unknown_responses \cup {message_id}
                   /\ Returned("MessageExecutor")
                   /\ UNCHANGED <<pending_responses, callback_response, deliveries,
                                  on_response_by>>
    /\ UNCHANGED <<queue, receiver_open, worker_message, add_node_local,
                   message_response, store, buckets, peer_received, sent, spawned,
                   submissions, dequeued, response_sends>>
    /\ UNCHANGED <<next_message_id, now, should_stop, sweeper_pc, sweep_todo,
                   registrations, driver_calls>>
    /\ UNCHANGED <<table_vars, server_vars>>
    /\ UNCHANGED <<reply_arguments, reply_constructed>>
    /\ UNCHANGED <<task_pc, task_ids, id_pair, id_measured, waker_state, woken>>

\* on_response returns to the arm of the replies
LockReplyWake ==
    /\ worker_pc["MessageExecutor"] = "on_response"
    /\ OnResponseWake("MessageExecutor")
    /\ Returned("MessageExecutor")
    /\ UNCHANGED <<queue, receiver_open, worker_message, add_node_local,
                   message_response, store, buckets, peer_received, sent, spawned,
                   submissions, dequeued, response_sends, answered_in_time>>
    /\ UNCHANGED <<wl_vars, table_vars, server_vars>>
    /\ UNCHANGED <<reply_arguments, reply_constructed>>
    /\ UNCHANGED <<task_pc, task_ids, id_pair, id_measured, waker_state>>

\* Future::poll up to the response lock: waker_state.lock() and the waker of
\* the task stored
PollLockWaker ==
    /\ worker_pc["AddNodeExecutor"] = "await"
    /\ worker_pc' = [worker_pc EXCEPT !["AddNodeExecutor"] = "poll_read"]
    /\ waker_state' = waker_state \cup {Probe.callback}
    /\ woken' = FALSE
    /\ UNCHANGED <<queue, receiver_open, worker_message, add_node_local,
                   message_response, store, buckets, peer_received, sent, spawned,
                   submissions, dequeued, response_sends, handler_returned,
                   answered_in_time>>
    /\ UNCHANGED <<wl_vars, table_vars, server_vars>>
    /\ UNCHANGED <<reply_arguments, reply_constructed>>
    /\ UNCHANGED <<task_pc, task_ids, id_pair, id_measured, on_response_by>>

\* the rest of poll: response.read(), Pending when there is no response,
\* else the status, on which act_on goes on as after the await
PollRead ==
    /\ worker_pc["AddNodeExecutor"] = "poll_read"
    /\ ~WriteLocked(Probe.callback)
    /\ IF poll(Probe.callback) = None
       THEN /\ worker_pc' = [worker_pc EXCEPT !["AddNodeExecutor"] = "pending"]
            /\ UNCHANGED <<buckets, handler_returned>>
       ELSE IF poll(Probe.callback) = Some("Err")
       THEN Evict
       ELSE /\ Returned("AddNodeExecutor")
            /\ UNCHANGED buckets
    /\ UNCHANGED <<queue, receiver_open, worker_message, add_node_local,
                   message_response, store, peer_received, sent, spawned, submissions,
                   dequeued, response_sends, answered_in_time>>
    /\ UNCHANGED <<wl_vars, table_vars, server_vars, unit_vars>>

\* the task that returned Pending is polled again once its waker was called
PollWoken ==
    /\ worker_pc["AddNodeExecutor"] = "pending"
    /\ woken
    /\ worker_pc' = [worker_pc EXCEPT !["AddNodeExecutor"] = "await"]
    /\ UNCHANGED <<queue, receiver_open, worker_message, add_node_local,
                   message_response, store, buckets, peer_received, sent, spawned,
                   submissions, dequeued, response_sends, handler_returned,
                   answered_in_time>>
    /\ UNCHANGED <<wl_vars, table_vars, server_vars, unit_vars>>

\* what the node is given: nodes for a bucket that is full, the reply of the
\* probed node, a shutdown
LockInputs ==
    [MessageExecutor |-> {ping_reply_type(SameBucketNodes[1], message_id) :
                             message_id \in MessageIds},
     AddNodeExecutor |-> {add_node_type(SameBucketNodes[BucketCapacity + 1]),
                          shutdown_type}]

\* the steps of the two workers
LockProgress ==
    \/ \E executor \in Networks : Recv(executor)
    \/ LockActReply
    \/ LockReplyWake
    \/ \E executor \in Networks : ActShutDown(executor)
    \/ \E executor \in Networks : Respond(executor)
    \/ AddNodeStart
    \/ \E reached \in BOOLEAN : AddNodeConnect(reached)
    \/ AddNodeRegister
    \/ PollLockWaker
    \/ PollRead
    \/ PollWoken

LockNext ==
    \/ \E executor \in Networks :
           \E message \in LockInputs[executor] : Submit(executor, message)
    \/ LockProgress
    \/ LockSweeper
    \/ Tick

LockSpec == Init /\ [][LockNext]_vars

\* the runtime does not stop while a worker can take a step, the sweeper
\* thread and the clock keep running
LockFairSpec == LockSpec /\ WF_vars(LockProgress) /\ WF_vars(LockSweeper) /\ WF_vars(Tick)

\* ------------------------------------------------------------------------
\* The server (src/server/mod.rs): every message of the node comes in over
\* a connection and goes through AsyncConnectionHandler::handle
\* ------------------------------------------------------------------------

\* a node whose bucket is full when the table starts with held nodes
Newcomer == SameBucketNodes[BucketCapacity + 1]

\* what connection.read() gives: Ok(message), or an error
ReadOk(message) == [ok |-> TRUE, message |-> Some(message)]

ReadErr == [ok |-> FALSE, message |-> None]

\* one message of every kind, from a source whose bucket has room, an
\* AddNode from the source whose bucket may be full, and one that names the
\* node itself as its source
InboundMessages ==
    {store_type("kademlia", "distributed hash table", Requester),
     add_node_type(Requester),
     add_node_type(Newcomer),
     add_node_type(CurrentNode),
     set_message_id(find_value_type(Requester, "kademlia"), 100),
     set_message_id(find_node_type(Requester), 101),
     set_message_id(ping_type(Requester), 10),
     ping_reply_type(SameBucketNodes[1], 1),
     find_value_reply_type(1, Some("distributed hash table"), None),
     find_node_reply_type(1, <<>>),
     shutdown_type}

InboundReads == {ReadOk(message) : message \in InboundMessages} \cup {ReadErr}

\* a connection is accepted once the handler of the one before has returned
\* (handle is awaited), and its handler reads it: on Ok the handler holds the
\* message and its source, on Err it logs and returns
ConnectionRead(read) ==
    /\ Len(connections) < MaxConnections
    /\ \A connection \in 1..Len(connections) : connections[connection].pc = "done"
    /\ connections' = Append(connections,
           [pc |-> IF read.ok THEN "submit_message" ELSE "done",
            read_ok |-> read.ok,
            message |-> read.message,
            source |-> IF read.ok THEN source(unwrap(read.message)) ELSE None,
            message_submission |-> 0,
            add_node_submission |-> 0])
    /\ UNCHANGED <<wl_vars, node_vars, table_vars, unit_vars>>

\* message_executor.submit(message).await, its error only logged
ConnectionSubmitMessage(connection) ==
    /\ connections[connection].pc = "submit_message"
    /\ Enqueue("MessageExecutor", unwrap(connections[connection].message))
    /\ connections' = [connections EXCEPT
           ![connection].pc = IF connections[connection].source # None
                              THEN "submit_add_node" ELSE "done",
           ![connection].message_submission = Len(submissions) + 1]

\* add_node_executor.submit(Message::add_node_type(node)).await
ConnectionSubmitAddNode(connection) ==
    /\ connections[connection].pc = "submit_add_node"
    /\ Enqueue("AddNodeExecutor", add_node_type(unwrap(connections[connection].source)))
    /\ connections' = [connections EXCEPT
           ![connection].pc = "done",
           ![connection].add_node_submission = Len(submissions) + 1]

\* the clock and the sweeper while the waiting list holds an entry: with no
\* entry there is nothing that reads the clock and nothing for a pass of the
\* sweeper to retain or expire
ServerTick == DOMAIN pending_responses # {} /\ Tick

ServerSweeper == (DOMAIN pending_responses # {} \/ sweeper_pc # "sleep") /\ Sweeper

ServerNext ==
    \/ \E read \in InboundReads : ConnectionRead(read)
    \/ \E connection \in 1..Len(connections) : ConnectionSubmitMessage(connection)
    \/ \E connection \in 1..Len(connections) : ConnectionSubmitAddNode(connection)
    \/ \E executor \in Networks : Recv(executor)
    \/ ActStore
    \/ ActPing
    \/ \E task \in spawned, reached \in BOOLEAN : PingReplyTask(task, reached)
    \/ \E reached \in BOOLEAN : ActFindValue(reached)
    \/ \E reached \in BOOLEAN : ActFindNode(reached)
    \/ ActReply
    \/ \E executor \in Networks : ActShutDown(executor)
    \/ \E executor \in Networks : ActUnhandled(executor)
    \/ \E executor \in Networks : Respond(executor)
    \/ AddNodeStart
    \/ \E reached \in BOOLEAN : AddNodeConnect(reached)
    \/ AddNodeRegister
    \/ AddNodeAwait
    \/ ServerSweeper
    \/ ServerTick

ServerSpec == Init /\ [][ServerNext]_vars

\* the steps of the handlers that have read their message and of the workers
ServerProgress ==
    \/ \E connection \in 1..Len(connections) : ConnectionSubmitMessage(connection)
    \/ \E connection \in 1..Len(connections) : ConnectionSubmitAddNode(connection)
    \/ \E executor \in Networks : Recv(executor)
    \/ ActStore
    \/ ActPing
    \/ \E task \in spawned, reached \in BOOLEAN : PingReplyTask(task, reached)
    \/ \E reached \in BOOLEAN : ActFindValue(reached)
    \/ \E reached \in BOOLEAN : ActFindNode(reached)
    \/ ActReply
    \/ \E executor \in Networks : ActShutDown(executor)
    \/ \E executor \in Networks : ActUnhandled(executor)
    \/ \E executor \in Networks : Respond(executor)
    \/ AddNodeStart
    \/ \E reached \in BOOLEAN : AddNodeConnect(reached)
    \/ AddNodeRegister
    \/ AddNodeAwait

\* the runtime does not stop while a handler or a worker can take a step, the
\* sweeper thread and the clock keep running
ServerFairSpec ==
    ServerSpec /\ WF_vars(ServerProgress) /\ WF_vars(ServerSweeper) /\ WF_vars(ServerTick)

\* ------------------------------------------------------------------------
\* The routing table under concurrent callers (src/routing/mod.rs): every
\* call takes the lock of the bucket for one read or one write at a time
\* ------------------------------------------------------------------------

\* the nodes the callers pass: the nodes of one bucket and a node of another
TableNodes == {SameBucketNodes[i] : i \in 1..(BucketCapacity + 1)} \cup {OtherBucketNode}

\* everything but the table and its callers
NodeAtRest ==
    /\ pending_responses = <<>>
    /\ next_message_id = [network \in Networks |-> 1]
    /\ now = 0
    /\ should_stop = FALSE
    /\ sweeper_pc = "sleep"
    /\ sweep_todo = {}
    /\ callback_response = <<>>
    /\ deliveries = <<>>
    /\ registrations = <<>>
    /\ unknown_responses = {}
    /\ driver_calls = 0
    /\ queue = [executor \in Networks |-> <<>>]
    /\ receiver_open = [executor \in Networks |-> TRUE]
    /\ worker_pc = [executor \in Networks |-> "recv"]
    /\ worker_message = [executor \in Networks |-> None]
    /\ add_node_local = None
    /\ message_response = <<>>
    /\ store = <<>>
    /\ peer_received = {}
    /\ sent = {}
    /\ spawned = {}
    /\ submissions = <<>>
    /\ dequeued = [executor \in Networks |-> <<>>]
    /\ response_sends = <<>>
    /\ handler_returned = {}
    /\ answered_in_time = {}

RestUnchanged ==
    UNCHANGED <<wl_vars, server_vars, unit_vars, queue, receiver_open, worker_pc, worker_message,
                add_node_local, message_response, store, peer_received, sent,
                spawned, submissions, dequeued, response_sends, handler_returned,
                answered_in_time>>

\* the table is empty, or the bucket of SameBucketNodes is already full
TableInit ==
    /\ NodeAtRest
    /\ UnitAtRest
    /\ \E held \in {0, BucketCapacity} :
          buckets = [EmptyTable EXCEPT ![bucket_index(SameBucketNodes[1].id)] =
                        SubSeq(SameBucketNodes, 1, held)]
    /\ thread_state = [thread \in Threads |-> Idle]
    /\ returns = <<>>
    /\ last_call = None
    /\ connections = <<>>

\* the calls started so far: those returned and those under way
CallsStarted ==
    Len(returns) + Cardinality({thread \in Threads : thread_state[thread].pc # "idle"})

\* the call of the thread is over with this result
Return(thread, op, node, to_remove, index, added) ==
    /\ returns' = Append(returns,
           [thread |-> thread, op |-> op, node |-> node, to_remove |-> to_remove,
            index |-> index, added |-> added])
    /\ thread_state' = [thread_state EXCEPT ![thread] = Idle]

\* Table::add up to the end of its contains: the bucket is read under the
\* read lock, which is released before the write lock is asked for
TableAddContains(thread, node) ==
    /\ thread_state[thread].pc = "idle"
    /\ CallsStarted < MaxCalls
    /\ LET found == contains(buckets, node)
       IN  IF found[2]
           THEN Return(thread, "add", Some(node), None, found[1], FALSE)
           ELSE /\ thread_state' = [thread_state EXCEPT ![thread] =
                       [pc |-> "add_write", index |-> found[1], node |-> Some(node),
                        to_remove |-> None]]
                /\ UNCHANGED returns
    /\ UNCHANGED <<buckets, last_call>>
    /\ RestUnchanged

\* the rest of Table::add: add_internal under the write lock of the bucket
TableAddWrite(thread) ==
    /\ thread_state[thread].pc = "add_write"
    /\ LET state == thread_state[thread]
           result == add_internal(buckets[state.index], unwrap(state.node))
       IN  /\ buckets' = [buckets EXCEPT ![state.index] = result.nodes]
           /\ Return(thread, "add", state.node, None, state.index, result.added)
    /\ UNCHANGED last_call
    /\ RestUnchanged

\* Table::remove_and_add up to contains(to_remove): the assertions hold for
\* the calls made here
TableRemoveAndAddContains(thread, to_remove, to_add) ==
    /\ thread_state[thread].pc = "idle"
    /\ CallsStarted < MaxCalls
    /\ to_remove # to_add
    /\ remove_and_add_asserts(bucket_index(to_remove.id), to_remove, to_add)
    /\ IF contains(buckets, to_remove)[2]
       THEN /\ thread_state' = [thread_state EXCEPT ![thread] =
                   [pc |-> "contains_to_add", index |-> bucket_index(to_remove.id),
                    node |-> Some(to_add), to_remove |-> Some(to_remove)]]
            /\ UNCHANGED returns
       ELSE Return(thread, "remove_and_add", Some(to_add), Some(to_remove),
                   bucket_index(to_remove.id), FALSE)
    /\ UNCHANGED <<buckets, last_call>>
    /\ RestUnchanged

\* the second operand of the condition: contains(&to_add)
TableRemoveAndAddContainsToAdd(thread) ==
    /\ thread_state[thread].pc = "contains_to_add"
    /\ LET state == thread_state[thread]
       IN  IF contains(buckets, unwrap(state.node))[2]
           THEN Return(thread, "remove_and_add", state.node, state.to_remove,
                       state.index, FALSE)
           ELSE /\ thread_state' = [thread_state EXCEPT ![thread].pc = "remove_and_add_write"]
                /\ UNCHANGED returns
    /\ UNCHANGED <<buckets, last_call>>
    /\ RestUnchanged

\* remove_internal and add_internal under the write lock of the bucket
TableRemoveAndAddWrite(thread) ==
    /\ thread_state[thread].pc = "remove_and_add_write"
    /\ LET state == thread_state[thread]
           removed == remove_internal(buckets[state.index], unwrap(state.to_remove))
           result == add_internal(removed, unwrap(state.node))
       IN  /\ buckets' = [buckets EXCEPT ![state.index] = result.nodes]
           /\ Return(thread, "remove_and_add", state.node, state.to_remove,
                     state.index, result.added)
    /\ UNCHANGED last_call
    /\ RestUnchanged

TableNext ==
    \/ \E thread \in Threads, node \in TableNodes : TableAddContains(thread, node)
    \/ \E thread \in Threads : TableAddWrite(thread)
    \/ \E thread \in Threads, to_remove \in TableNodes, to_add \in TableNodes :
          TableRemoveAndAddContains(thread, to_remove, to_add)
    \/ \E thread \in Threads : TableRemoveAndAddContainsToAdd(thread)
    \/ \E thread \in Threads : TableRemoveAndAddWrite(thread)

TableSpec == TableInit /\ [][TableNext]_vars

\* ------------------------------------------------------------------------
\* The routing table under one caller: every call runs from its start to
\* its return with no other call in between, and last_call holds the call
\* and the table before it until the caller is done with the result
\* ------------------------------------------------------------------------

\* the nodes of the calls: the nodes of TableNodes, a node with the id of
\* SameBucketNodes[1] at another endpoint, and a node of one more bucket
SeqNodes ==
    TableNodes \cup {NewNodeWithId(8009, SameBucketNodes[1].id),
                     NewNodeWithId(7001, IdOf(253))}

\* the bucket indices of the calls: those of the nodes of TableNodes and the
\* first one out of range
SeqIndices == {bucket_index(node.id) : node \in TableNodes} \cup {BITS}

\* the ids closest_neighbors is asked about
TargetIds == {IdOf(251), IdOf(247), IdOf(511), IdOf(255)}

Call(op, before, node, to_remove, index, added, panicked, found, target, n) ==
    [op |-> op, before |-> before, node |-> node, to_remove |-> to_remove,
     index |-> index, added |-> added, panicked |-> panicked, found |-> found,
     target |-> target, n |-> n]

TableSeqInit ==
    /\ NodeAtRest
    /\ UnitAtRest
    /\ buckets = EmptyTable
    /\ thread_state = [thread \in Threads |-> Idle]
    /\ returns = <<>>
    /\ last_call = None
    /\ connections = <<>>

SeqUnchanged ==
    /\ UNCHANGED <<thread_state, returns>>
    /\ RestUnchanged

\* Table::add
SeqAdd(node) ==
    /\ last_call = None
    /\ LET result == add(buckets, node)
       IN  /\ buckets' = result.buckets
           /\ last_call' = Some(Call("add", buckets, Some(node), None,
                                     result.bucket_index, result.added, FALSE, <<>>,
                                     None, 0))
    /\ SeqUnchanged

\* Table::remove_and_add: a failed assertion panics before the table is read
SeqRemoveAndAdd(index, to_remove, to_add) ==
    /\ last_call = None
    /\ to_remove # to_add
    /\ IF remove_and_add_asserts(index, to_remove, to_add)
       THEN buckets' = remove_and_add(buckets, index, to_remove, to_add)
       ELSE UNCHANGED buckets
    /\ last_call' = Some(Call("remove_and_add", buckets, Some(to_add), Some(to_remove),
                              index, FALSE,
                              ~remove_and_add_asserts(index, to_remove, to_add), <<>>,
                              None, 0))
    /\ SeqUnchanged

\* Table::first_node_in
SeqFirstNodeIn(index) ==
    /\ last_call = None
    /\ last_call' = Some(Call("first_node_in", buckets,
                              IF first_node_in_asserts(index)
                              THEN first_node_in(buckets, index) ELSE None,
                              None, index, FALSE, ~first_node_in_asserts(index), <<>>,
                              None, 0))
    /\ UNCHANGED buckets
    /\ SeqUnchanged

\* Table::closest_neighbors
SeqClosestNeighbors(id, number_of_neighbors) ==
    /\ last_call = None
    /\ last_call' = Some(Call("closest_neighbors", buckets, None, None, 0, FALSE, FALSE,
                              closest_neighbors(buckets, id, number_of_neighbors).nodes,
                              Some(id), number_of_neighbors))
    /\ UNCHANGED buckets
    /\ SeqUnchanged

\* the caller is done with the result of its call and is free to call again
SeqDone ==
    /\ last_call # None
    /\ last_call' = None
    /\ UNCHANGED buckets
    /\ SeqUnchanged

TableSeqNext ==
    \/ SeqDone
    \/ \E node \in SeqNodes : SeqAdd(node)
    \/ \E index \in SeqIndices, to_remove \in SeqNodes, to_add \in SeqNodes :
          SeqRemoveAndAdd(index, to_remove, to_add)
    \/ \E index \in SeqIndices : SeqFirstNodeIn(index)
    \/ \E id \in TargetIds, number_of_neighbors \in 0..MaxNeighbors :
          SeqClosestNeighbors(id, number_of_neighbors)

TableSeqSpec == TableSeqInit /\ [][TableSeqNext]_vars

\* ------------------------------------------------------------------------
\* Id::differing_bit_position and Id::distance_from on pairs of ids
\* (src/id.rs)
\* ------------------------------------------------------------------------

\* the ids the pairs are drawn from: equal ids, ids that differ in the lowest
\* bit, in the highest, within one byte and across the bytes
IdSamples == {IdOf(n) : n \in {0, 1, 2, 3, 127, 128, 247, 254, 255, 256, 510, 511,
                               (2 ^ (BITS - 1)), (2 ^ BITS) - 1}}

IdInit ==
    /\ NodeAtRest
    /\ TasksAtRest
    /\ LocksAtRest
    /\ RepliesAtRest
    /\ buckets = EmptyTable
    /\ thread_state = [thread \in Threads |-> Idle]
    /\ returns = <<>>
    /\ last_call = None
    /\ connections = <<>>
    /\ id_pair \in {Some(<<a, b>>) : a \in IdSamples, b \in IdSamples}
    /\ id_measured = None

\* the two functions are called on the pair, each way round
IdMeasure ==
    /\ id_measured = None
    /\ LET a == unwrap(id_pair)[1]
           b == unwrap(id_pair)[2]
       IN  id_measured' = Some([position |-> differing_bit_position(a, b),
                                position_back |-> differing_bit_position(b, a),
                                distance |-> distance_from(a, b),
                                distance_back |-> distance_from(b, a)])
    /\ UNCHANGED <<reply_arguments, reply_constructed>>
    /\ UNCHANGED <<task_pc, task_ids, id_pair, on_response_by, waker_state, woken>>
    /\ UNCHANGED <<wl_vars, node_vars, table_vars, server_vars>>

IdNext == IdMeasure

IdSpec == IdInit /\ [][IdNext]_vars

\* ------------------------------------------------------------------------
\* The MessageExecutor under requests that carry a message id and requests
\* that carry none: find_value_type, find_node_type and ping_type construct
\* their message with message_id = None, and only AsyncNetwork's
\* send_with_message_id sets it
\* ------------------------------------------------------------------------

RequestInputs ==
    {find_value_type(Requester, "kademlia"),
     set_message_id(find_value_type(Requester, "kademlia"), 100),
     find_node_type(Requester),
     set_message_id(find_node_type(Requester), 101),
     ping_type(Requester),
     set_message_id(ping_type(Requester), 10),
     store_type("kademlia", "distributed hash table", Requester),
     shutdown_type}

RequestNext ==
    \/ \E message \in RequestInputs : Submit("MessageExecutor", message)
    \/ Recv("MessageExecutor")
    \/ ActStore
    \/ ActPing
    \/ \E task \in spawned, reached \in BOOLEAN : PingReplyTask(task, reached)
    \/ \E reached \in BOOLEAN : ActFindValue(reached)
    \/ \E reached \in BOOLEAN : ActFindNode(reached)
    \/ ActShutDown("MessageExecutor")
    \/ Respond("MessageExecutor")

RequestSpec == Init /\ [][RequestNext]_vars

\* ------------------------------------------------------------------------
\* Message::find_value_reply_type on the values and the neighbors a caller
\* may pass (src/net/message.rs)
\* ------------------------------------------------------------------------

ReplyMessageIds == 1..MaxIds

ReplyValues == {None, Some("distributed hash table"), Some("in-memory")}

ReplyNeighbors ==
    {None, Some(<<>>), Some(<<NewSource(Requester)>>), Some(<<NewSource(OtherBucketNode)>>),
     Some(<<NewSource(Requester), NewSource(OtherBucketNode)>>)}

ReplyInit ==
    /\ NodeAtRest
    /\ TasksAtRest
    /\ IdsAtRest
    /\ LocksAtRest
    /\ buckets = EmptyTable
    /\ thread_state = [thread \in Threads |-> Idle]
    /\ returns = <<>>
    /\ last_call = None
    /\ connections = <<>>
    /\ reply_arguments \in
           {Some([message_id |-> message_id, value |-> value, neighbors |-> neighbors]) :
               message_id \in ReplyMessageIds, value \in ReplyValues,
               neighbors \in ReplyNeighbors}
    /\ reply_constructed = None

\* the call: the assertion panics, or the FindValueReply is returned
ConstructReply ==
    /\ reply_constructed = None
    /\ LET arguments == unwrap(reply_arguments)
       IN  reply_constructed' =
               IF find_value_reply_type_asserts(arguments.value, arguments.neighbors)
               THEN Some([panicked |-> FALSE,
                          message |-> Some(find_value_reply_type(arguments.message_id,
                                                                 arguments.value,
                                                                 arguments.neighbors))])
               ELSE Some([panicked |-> TRUE, message |-> None])
    /\ UNCHANGED <<task_pc, task_ids, id_pair, id_measured, on_response_by, waker_state,
                   woken, reply_arguments>>
    /\ UNCHANGED <<wl_vars, node_vars, table_vars, server_vars>>

ReplyNext == ConstructReply

ReplySpec == ReplyInit /\ [][ReplyNext]_vars

\* ------------------------------------------------------------------------
\* Properties of the waiting list (WLSpec, WLFairSpec)
\* ------------------------------------------------------------------------

Callbacks == 1..Len(callback_response)

IsTimeout(delivery) == delivery.response.message = "ResponseTimeoutError"

\* C1: the callback of a registration has on_response invoked at most once,
\* whatever the interleaving of handle_response calls and sweeper passes: a
\* reply and a timeout are never both delivered for one registration
C1_OnResponseAtMostOnce ==
    \A callback \in Callbacks : Len(deliveries[callback]) <= 1

\* a registration resolved by the sweeper, whose reply came afterwards and
\* found no entry
C1_ReplyAfterTimeout ==
    \E callback \in Callbacks :
        /\ Len(deliveries[callback]) = 1
        /\ IsTimeout(deliveries[callback][1])
        /\ registrations[callback].message_id \in unknown_responses

\* every on_response the sweeper made came more than ExpireAfter after the
\* registration, carries the registered id, is the only one of its callback
\* and left no entry under the id
TimeoutsAreLateAndFinal ==
    \A callback \in Callbacks :
        \A i \in 1..Len(deliveries[callback]) :
            IsTimeout(deliveries[callback][i]) =>
                /\ Len(deliveries[callback]) = 1
                /\ deliveries[callback][i].response.message_id =
                       registrations[callback].message_id
                /\ deliveries[callback][i].at - registrations[callback].at > ExpireAfter
                /\ registrations[callback].message_id \notin DOMAIN pending_responses

Resolved(callback) ==
    /\ callback \in Callbacks
    /\ Len(deliveries[callback]) = 1

\* C2: a callback registered and never answered gets, while the sweeper keeps
\* running, exactly one on_response from the sweeper: a ResponseTimeoutError
\* with the registered id, more than ExpireAfter after the registration, and
\* the entry is gone from the waiting list afterwards
C2_TimeoutExactlyOnce ==
    /\ [](TimeoutsAreLateAndFinal /\ C1_OnResponseAtMostOnce)
    /\ \A callback \in 1..MaxCallbacks :
          (callback \in Callbacks) ~> (Resolved(callback) \/ should_stop)

\* a registration nobody answered, resolved by the sweeper
C2_TimedOutUnanswered ==
    \E callback \in Callbacks :
        /\ Len(deliveries[callback]) = 1
        /\ IsTimeout(deliveries[callback][1])
        /\ registrations[callback].message_id \notin unknown_responses
        /\ deliveries[callback][1].at = registrations[callback].at + ExpireAfter + 1
        /\ ~should_stop

\* ------------------------------------------------------------------------
\* Properties of the node (Spec, FairSpec)
\* ------------------------------------------------------------------------

Registered(message_id) ==
    \E callback \in 1..Len(registrations) :
        registrations[callback].message_id = message_id

\* C3: in send_with_message_id_expect_reply the callback is in the waiting
\* list under the assigned id before the peer can see the request: in no
\* state has the peer received the request while the id is not registered
C3_RegisteredBeforeObserved ==
    \A message_id \in peer_received : Registered(message_id)

\* the AddNode handler has returned after a probe, AddNodeDone not yet sent
AfterProbe ==
    /\ worker_pc["AddNodeExecutor"] = "respond"
    /\ add_node_local # None

\* the node to add was absent from its bucket, and the bucket was full
AbsentFromFull ==
    /\ ~contains(Probe.before, Probe.source)[2]
    /\ Len(Probe.before[Probe.bucket_index]) = max_bucket_capacity

\* C4: AddNode for a node absent from a full bucket, the probed node answers
\* with a PingReply carrying the probe's id before expiry: the action
\* resolves Ok and the table reported with AddNodeDone is the table from
\* before, the probed node kept and the new node left out
C4_ReplyingIncumbentKept ==
    (AfterProbe /\ AbsentFromFull /\ ProbeId \in answered_in_time) =>
        /\ poll(Probe.callback) = Some("Ok")
        /\ buckets = Probe.before

ProbeFailed ==
    \/ Probe.send_result = Some("Err")
    \/ /\ poll(Probe.callback) = Some("Err")
       /\ IsTimeout(deliveries[Probe.callback][1])

\* C5: AddNode for a node absent from a full bucket probes the oldest node of
\* the bucket; when the probe cannot be sent, or times out unanswered, the
\* table reported with AddNodeDone has lost the oldest node and has the new
\* node appended, the other nodes of the bucket and the other buckets untouched
C5_UnresponsiveOldestReplaced ==
    (AfterProbe /\ AbsentFromFull) =>
        /\ Probe.node = Head(Probe.before[Probe.bucket_index])
        /\ ProbeFailed =>
              /\ ~contains(buckets, Probe.node)[2]
              /\ contains(buckets, Probe.source)[2]
              /\ buckets = [Probe.before EXCEPT ![Probe.bucket_index] =
                               Append(Tail(@), Probe.source)]

\* a probe that timed out, in a bucket of more than one node
C5_ReplacedAfterTimeout ==
    /\ AfterProbe
    /\ AbsentFromFull
    /\ Probe.send_result = Some("Ok")
    /\ poll(Probe.callback) = Some("Err")
    /\ IsTimeout(deliveries[Probe.callback][1])
    /\ Len(buckets[Probe.bucket_index]) > 1
    /\ buckets # Probe.before

\* the registrations whose request no peer ever read
SendFailed(callback) ==
    /\ callback \in 1..Len(registrations)
    /\ registrations[callback].message_id \notin peer_received

PastRegister ==
    /\ worker_pc["AddNodeExecutor"] \in {"await", "respond"}
    /\ add_node_local # None

\* once send_with_message_id_expect_reply is over the id is registered for
\* the callback of the caller, whatever connect_and_write returned
RegisteredOnEveryPath ==
    PastRegister =>
        /\ Len(registrations) >= Probe.callback
        /\ registrations[Probe.callback].message_id = ProbeId

\* a registration is either still in the waiting list or resolved
PendingOrResolved ==
    \A callback \in 1..Len(registrations) :
        \/ /\ registrations[callback].message_id \in DOMAIN pending_responses
           /\ pending_responses[registrations[callback].message_id].callback = callback
           /\ deliveries[callback] = <<>>
        \/ /\ registrations[callback].message_id \notin DOMAIN pending_responses
           /\ Len(deliveries[callback]) = 1

Submitted == 1..Len(submissions)

\* the submissions an executor took into its queue, in the order of the calls
AcceptedBy(executor) ==
    LET Taken(rid) == submissions[rid].executor = executor /\ submissions[rid].accepted
    IN  SelectSeq([rid \in Submitted |-> rid], Taken)

\* the worker is done with the submission: status sent, or message dropped
Finished(rid) == message_response[rid] # "pending"

\* C7: the worker of an executor dequeues and handles the messages in the
\* order their submit calls completed: what it has dequeued is a prefix of
\* what the executor accepted, each message is finished before the next is
\* dequeued, none is skipped, none handled twice
C7_HandledInSubmissionOrder ==
    \A executor \in Networks :
        /\ Len(dequeued[executor]) <= Len(AcceptedBy(executor))
        /\ dequeued[executor] =
               SubSeq(AcceptedBy(executor), 1, Len(dequeued[executor]))
        /\ \A i \in 1..(Len(dequeued[executor]) - 1) : Finished(dequeued[executor][i])
        /\ \A rid \in Submitted : response_sends[rid] <= 1

\* two messages of one executor, both dequeued, the second of them at work
C7_TwoDequeued ==
    \E executor \in Networks :
        /\ Len(dequeued[executor]) = 2
        /\ worker_pc[executor] = "act"

Statuses ==
    {"StoreDone", "PingDone", "FindValueDone", "FindNodeDone", "ReplyDone",
     "AddNodeDone", "ShutdownDone"}

\* a MessageResponse gets at most one status: the one the worker sent for its
\* own message, after the handler of that message returned; with StoreDone
\* the key of the message is readable
OwnCompletion ==
    \A rid \in Submitted :
        /\ response_sends[rid] <= 1
        /\ message_response[rid] \in Statuses =>
              /\ submissions[rid].accepted
              /\ response_sends[rid] = 1
              /\ rid \in handler_returned
              /\ message_response[rid] = message_status(submissions[rid].message.type)
        /\ message_response[rid] = "StoreDone" =>
              get(store, unwrap(submissions[rid].message.key)) # None

\* the submitter of rid observes AddNodeDone in this step
AddNodeDoneObserved(rid) ==
    /\ message_response[rid] = "pending"
    /\ message_response'[rid] = "AddNodeDone"

NodeOf(rid) == to_node(unwrap(submissions[rid].message.source))

\* the bucket of the node is full of other nodes, and the probe of its
\* oldest node was answered
IncumbentKept(rid) ==
    /\ Len(buckets[bucket_index(NodeOf(rid).id)]) = max_bucket_capacity
    /\ add_node_local # None
    /\ poll(Probe.callback) = Some("Ok")

C9_ClosedAfterShutdown ==
    \A rid \in Submitted :
        submissions[rid].after_shutdown_done =>
            /\ message_response[rid] = "QueueClosed"
            /\ ~submissions[rid].accepted
            /\ rid \notin handler_returned
            /\ \A executor \in Networks :
                  /\ \A i \in 1..Len(dequeued[executor]) : dequeued[executor][i] # rid
                  /\ \A i \in 1..Len(queue[executor]) :
                        queue[executor][i].response_sender # rid
                  /\ worker_message[executor] # None =>
                        Current(executor).response_sender # rid

\* a submit after the ShutdownDone of its executor
C9_SubmitAfterShutdownDone ==
    \E rid \in Submitted :
        /\ submissions[rid].after_shutdown_done
        /\ message_response[rid] = "QueueClosed"

\* the MessageStatus that goes with each kind of message
status_of_kind(type) ==
    CASE type = "Store" -> "StoreDone"
      [] type = "Ping" -> "PingDone"
      [] type = "FindValue" -> "FindValueDone"
      [] type = "FindNode" -> "FindNodeDone"
      [] type \in ReplyTypes -> "ReplyDone"
      [] type = "AddNode" -> "AddNodeDone"
      [] type = "ShutDown" -> "ShutdownDone"

\* C10: the status the worker reports after the handler returned is the one
\* of the kind of the message: StoreDone for Store, PingDone for Ping,
\* FindValueDone for FindValue, FindNodeDone for FindNode, ReplyDone for a
\* reply, AddNodeDone for AddNode, ShutdownDone for ShutDown
C10_StatusOfKind ==
    \A rid \in Submitted :
        message_response[rid] \in Statuses =>
            message_response[rid] = status_of_kind(submissions[rid].message.type)

\* the worker of the MessageExecutor handles a reply in this step
ReplyHandled ==
    /\ Acting("MessageExecutor", ReplyTypes)
    /\ worker_pc'["MessageExecutor"] # "act"

\* what the waiting list and the callbacks look like after a reply with the
\* id of an entry: the callback of the entry has Ok(message), the entry is
\* gone, every other entry and callback is as before
ReplyDelivered(message_id, type) ==
    LET callback == pending_responses[message_id].callback
    IN  /\ callback_response'[callback] = Some(OkResponse(type))
        /\ deliveries'[callback] =
               Append(deliveries[callback], [response |-> OkResponse(type), at |-> now])
        /\ pending_responses' = remove(pending_responses, message_id)
        /\ message_id \notin DOMAIN pending_responses'
        /\ \A other \in Callbacks \ {callback} :
              /\ callback_response'[other] = callback_response[other]
              /\ deliveries'[other] = deliveries[other]

\* C11: for a PingReply, FindValueReply or FindNodeReply with id m the
\* MessageExecutor runs no action: a registered m has its callback get
\* Ok(the message) and its entry removed, an unregistered m invokes no
\* callback and leaves the waiting list as it is; the store and the routing
\* table do not change, nothing is sent, and the status is ReplyDone
C11_ReplyGoesToWaitingList ==
    /\ [][ReplyHandled =>
            LET message == Current("MessageExecutor").message
                message_id == unwrap(message.message_id)
            IN  /\ store' = store
                /\ buckets' = buckets
                /\ sent' = sent
                /\ spawned' = spawned
                /\ worker_pc'["MessageExecutor"] = "respond"
                /\ IF message_id \in DOMAIN pending_responses
                   THEN ReplyDelivered(message_id, message.type)
                   ELSE /\ pending_responses' = pending_responses
                        /\ callback_response' = callback_response
                        /\ deliveries' = deliveries]_vars
    /\ [](\A rid \in Submitted :
            (/\ submissions[rid].message.type \in ReplyTypes
             /\ message_response[rid] \in Statuses) =>
                message_response[rid] = "ReplyDone")

\* a reply whose id was registered: handled, its callback resolved Ok, and
\* ReplyDone reported
C11_RegisteredReplyHandled ==
    \E rid \in Submitted :
        /\ submissions[rid].message.type \in ReplyTypes
        /\ message_response[rid] = "ReplyDone"
        /\ \E callback \in 1..Len(registrations) :
              /\ registrations[callback].message_id =
                     unwrap(submissions[rid].message.message_id)
              /\ Len(deliveries[callback]) = 1
              /\ deliveries[callback][1].response.ok

\* ------------------------------------------------------------------------
\* Properties of the routing table under concurrent callers (TableSpec)
\* ------------------------------------------------------------------------

NoNodeTwice(nodes) ==
    \A i \in 1..Len(nodes), j \in 1..Len(nodes) : i # j => nodes[i] # nodes[j]

\* the add calls that returned added = true for the node
AddedTrue(node) ==
    {i \in 1..Len(returns) :
        returns[i].op = "add" /\ returns[i].node = Some(node) /\ returns[i].added}

\* C12: concurrent add calls for one node linearize: one of them returns
\* added = true and appends, the other sees the node present and returns
\* false, and no bucket ever holds a node twice
C12_ConcurrentAddsLinearize ==
    /\ \A index \in BucketIndices : NoNodeTwice(buckets[index])
    /\ \A node \in TableNodes :
          (\A i \in 1..Len(returns) : returns[i].op = "add") =>
              Cardinality(AddedTrue(node)) <= 1

\* C13: whatever the interleaving of add and remove_and_add calls, no
\* bucket holds more nodes than the bucket capacity
C13_BucketWithinCapacity ==
    \A index \in BucketIndices : Len(buckets[index]) <= max_bucket_capacity

\* an add and a remove_and_add, both past their reads and about to write
\* to the same full bucket
C13_TwoWritersOnFullBucket ==
    \E thread \in Threads, other \in Threads :
        /\ thread_state[thread].pc = "add_write"
        /\ thread_state[other].pc = "remove_and_add_write"
        /\ thread_state[thread].index = thread_state[other].index
        /\ Len(buckets[thread_state[thread].index]) = max_bucket_capacity

\* ------------------------------------------------------------------------
\* Properties of the routing table under one caller (TableSeqSpec)
\* ------------------------------------------------------------------------

Called(op) == last_call # None /\ unwrap(last_call).op = op

\* C14: add(n) returns added = true exactly when n was absent from its
\* bucket and the bucket held fewer nodes than its capacity, and n is then
\* appended at the tail; when it returns false the table is as before, and a
\* node refused by a full bucket is not contained; the index returned is
\* differing_bit_position(self_id, n.id)
C14_AddResult ==
    Called("add") =>
        LET call == unwrap(last_call)
            node == unwrap(call.node)
            index == differing_bit_position(CurrentNode.id, node.id)
            present == \E i \in 1..Len(call.before[index]) : call.before[index][i] = node
            full == Len(call.before[index]) >= max_bucket_capacity
        IN  /\ call.index = index
            /\ call.added <=> (~present /\ ~full)
            /\ call.added =>
                  buckets = [call.before EXCEPT ![index] = Append(@, node)]
            /\ ~call.added => buckets = call.before
            /\ (~present /\ full) => ~contains(buckets, node)[2]

\* an add refused by a full bucket, one refused for a node already there and
\* one that appended behind another node
C14_AddRefusedByFullBucket ==
    /\ Called("add")
    /\ ~unwrap(last_call).added
    /\ ~contains(buckets, unwrap(unwrap(last_call).node))[2]
    /\ Len(buckets[unwrap(last_call).index]) = max_bucket_capacity

\* the call was remove_and_add(b, x, y) with x and y both of bucket b, x in
\* the table and y not
ReplacementDue ==
    /\ Called("remove_and_add")
    /\ LET call == unwrap(last_call)
           to_remove == unwrap(call.to_remove)
           to_add == unwrap(call.node)
       IN  /\ call.index < BITS
           /\ bucket_index(to_remove.id) = call.index
           /\ bucket_index(to_add.id) = call.index
           /\ contains(call.before, to_remove)[2]
           /\ ~contains(call.before, to_add)[2]

\* C15: after remove_and_add(b, x, y) with x present, y absent and both of
\* bucket b, x is not contained, y is contained and is the tail of bucket b,
\* the other nodes of the bucket keep their order, and the bucket has the
\* size it had, a full bucket included
C15_RemoveAndAddReplaces ==
    ReplacementDue =>
        LET call == unwrap(last_call)
            to_remove == unwrap(call.to_remove)
            to_add == unwrap(call.node)
            others == SelectSeq(call.before[call.index], LAMBDA node : node # to_remove)
        IN  /\ ~contains(buckets, to_remove)[2]
            /\ contains(buckets, to_add)[2]
            /\ buckets = [call.before EXCEPT ![call.index] = Append(others, to_add)]
            /\ Len(buckets[call.index]) = Len(call.before[call.index])

\* the newest node of a full bucket was replaced
C15_ReplacedInFullBucket ==
    /\ ReplacementDue
    /\ LET call == unwrap(last_call)
       IN  /\ Len(call.before[call.index]) = max_bucket_capacity
           /\ call.before[call.index][max_bucket_capacity] = unwrap(call.to_remove)
           /\ buckets[call.index][max_bucket_capacity] = unwrap(call.node)

\* C16: remove_and_add panics and leaves the table as it was whenever its
\* bucket_index is not below BITS or to_remove or to_add is not of the bucket
\* bucket_index, and first_node_in panics whenever its bucket_index is not
\* below BITS
C16_PreconditionViolationsPanic ==
    /\ Called("remove_and_add") =>
          LET call == unwrap(last_call)
          IN  (\/ ~(call.index < BITS)
               \/ bucket_index(unwrap(call.to_remove).id) # call.index
               \/ bucket_index(unwrap(call.node).id) # call.index)
                  => (call.panicked /\ buckets = call.before)
    /\ Called("first_node_in") =>
          LET call == unwrap(last_call)
          IN  ~(call.index < BITS) => call.panicked

\* the nodes of a table and their ids
NodesOf(table) == UNION {{table[index][i] : i \in 1..Len(table[index])} : index \in BucketIndices}

NodeIdsOf(table) == {node.id : node \in NodesOf(table)}

\* C17: closest_neighbors(id, n) returns at most n nodes, their node ids
\* pairwise distinct, in an order of non-decreasing XOR distance to id, and
\* fewer than n of them only when the table holds fewer than n distinct node
\* ids
C17_NeighborsBoundedDistinctSorted ==
    Called("closest_neighbors") =>
        LET call == unwrap(last_call)
            found == call.found
            target == unwrap(call.target)
        IN  /\ Len(found) <= call.n
            /\ \A i, j \in 1..Len(found) : i # j => found[i].id # found[j].id
            /\ \A i, j \in 1..Len(found) :
                  i < j => distance_from(found[i].id, target) <= distance_from(found[j].id, target)
            /\ \A i \in 1..Len(found) : found[i] \in NodesOf(call.before)
            /\ Len(found) < call.n => Cardinality(NodeIdsOf(call.before)) < call.n

\* a bucket held two nodes of one id, nodes of another bucket were closer to
\* the target, and the call returned as many nodes as it was asked for
C17_SameIdSkippedAndSorted ==
    /\ Called("closest_neighbors")
    /\ LET call == unwrap(last_call)
       IN  /\ call.n >= 2
           /\ Len(call.found) = call.n
           /\ Cardinality(NodesOf(call.before)) > Cardinality(NodeIdsOf(call.before))
           /\ bucket_index(call.found[1].id) # bucket_index(call.found[call.n].id)
           /\ distance_from(call.found[1].id, unwrap(call.target))
                  < distance_from(call.found[call.n].id, unwrap(call.target))

\* C18: closest_neighbors(id, n) returns the n known nodes of smallest XOR
\* distance to id: no node it leaves out is strictly closer to id than a
\* node it returns
C18_NoCloserNodeLeftOut ==
    Called("closest_neighbors") =>
        LET call == unwrap(last_call)
            target == unwrap(call.target)
            returned == {call.found[i] : i \in 1..Len(call.found)}
            left_out == {node \in NodesOf(call.before) :
                            node.id \notin {other.id : other \in returned}}
        IN  \A included \in returned, excluded \in left_out :
                ~(distance_from(excluded.id, target) < distance_from(included.id, target))

\* ------------------------------------------------------------------------
\* Properties of the Store action (Spec)
\* ------------------------------------------------------------------------

\* the step in which the MessageExecutor runs the action of a Store
StoreHandled ==
    /\ Acting("MessageExecutor", {"Store"})
    /\ worker_pc'["MessageExecutor"] # "act"

\* C20: handling a Store makes store.get(key) return its value by the time
\* StoreDone is reported, sends no message to the network, and leaves the
\* routing table and the waiting list as they were
C20_StoreOnlyStores ==
    /\ [][StoreHandled =>
            LET message == Current("MessageExecutor").message
            IN  /\ get(store', unwrap(message.key)) = message.value
                /\ buckets' = buckets
                /\ sent' = sent
                /\ spawned' = spawned
                /\ peer_received' = peer_received
                /\ pending_responses' = pending_responses
                /\ next_message_id' = next_message_id
                /\ callback_response' = callback_response
                /\ deliveries' = deliveries]_vars
    /\ [][\A rid \in Submitted :
            (/\ message_response[rid] # "StoreDone"
             /\ message_response'[rid] = "StoreDone") =>
                /\ submissions[rid].message.type = "Store"
                /\ get(store', unwrap(submissions[rid].message.key))
                       = submissions[rid].message.value]_vars

\* StoreDone was reported for a Store and the store holds its value
C20_StoreDoneAndStored ==
    \E rid \in Submitted :
        /\ submissions[rid].message.type = "Store"
        /\ message_response[rid] = "StoreDone"
        /\ get(store, unwrap(submissions[rid].message.key)) = submissions[rid].message.value

\* ------------------------------------------------------------------------
\* Properties of the connection handler (ServerSpec, ServerFairSpec)
\* ------------------------------------------------------------------------

Connections == 1..Len(connections)

SourceBearing == {"Store", "AddNode", "FindValue", "FindNode", "Ping"}

\* the handler of the connection has returned after a successful read
Handled(connection) ==
    /\ connections[connection].read_ok
    /\ connections[connection].pc = "done"

\* the submissions the handlers have made, as the executors saw them
SubmissionsOf(connection) ==
    {connections[connection].message_submission,
     connections[connection].add_node_submission} \ {0}

\* what a handler that has returned has submitted: the message it read, once,
\* to the MessageExecutor, and after that AddNode{source} to the
\* AddNodeExecutor exactly for a message of a source-bearing kind
HandlerSubmissions ==
    /\ \A connection \in Connections :
          LET handler == connections[connection]
          IN  /\ ~handler.read_ok =>
                    /\ handler.pc = "done"
                    /\ SubmissionsOf(connection) = {}
              /\ Handled(connection) =>
                    /\ handler.message_submission \in Submitted
                    /\ submissions[handler.message_submission].executor = "MessageExecutor"
                    /\ submissions[handler.message_submission].message
                           = unwrap(handler.message)
                    /\ (handler.add_node_submission # 0)
                           <=> (unwrap(handler.message).type \in SourceBearing)
                    /\ handler.add_node_submission # 0 =>
                          /\ handler.add_node_submission \in Submitted
                          /\ handler.add_node_submission > handler.message_submission
                          /\ submissions[handler.add_node_submission].executor
                                 = "AddNodeExecutor"
                          /\ submissions[handler.add_node_submission].message
                                 = add_node_type(
                                       to_node(unwrap(unwrap(handler.message).source)))
    /\ \A rid \in Submitted :
          \E connection \in Connections : rid \in SubmissionsOf(connection)
    /\ \A first, second \in Connections :
          first # second => SubmissionsOf(first) \cap SubmissionsOf(second) = {}

\* the source of the Store the connection brought in
StoreSource(connection) == to_node(unwrap(unwrap(connections[connection].message).source))

StoreRead(connection) ==
    /\ connection \in Connections
    /\ connections[connection].read_ok
    /\ unwrap(connections[connection].message).type = "Store"

AscendingTo(sources, target) ==
    \A i, j \in 1..Len(sources) :
        i < j => distance_from(sources[i].node_id, target)
                     <= distance_from(sources[j].node_id, target)

\* the one record the step may add to what was written to the network
WritesAtMost(record) == sent' = sent \/ sent' = sent \cup {record}

\* the step in which the MessageExecutor runs the action of a FindValue
FindValueHandled ==
    /\ Acting("MessageExecutor", {"FindValue"})
    /\ worker_pc'["MessageExecutor"] # "act"

\* C21: handling FindValue{source, Some(id), key, key_id} sends one
\* FindValueReply with the id to source.endpoint, with (Some(value), None)
\* when the store holds the key and else (None, Some(neighbors)), neighbors
\* being closest_neighbors(key_id, 5) in ascending order of distance; the
\* store and the routing table stay as they are
C21_FindValueRepliesOnce ==
    [][(FindValueHandled /\ Current("MessageExecutor").message.message_id # None) =>
          LET channeled == Current("MessageExecutor")
              message == channeled.message
              key == unwrap(message.key)
              neighbors == sources_of(closest_neighbors(buckets, unwrap(message.key_id), 5))
              reply == IF key \in DOMAIN store
                       THEN Message("FindValueReply", message.message_id, None, None,
                                    None, Some(store[key].value), None, None)
                       ELSE Message("FindValueReply", message.message_id, None, None,
                                    None, None, None, Some(neighbors))
          IN  /\ AscendingTo(neighbors, unwrap(message.key_id))
              /\ Len(neighbors) <= 5
              /\ WritesAtMost([by |-> channeled.response_sender, message |-> reply,
                               endpoint |-> unwrap(message.source).node_endpoint])
              /\ store' = store
              /\ buckets' = buckets
              /\ spawned' = spawned]_vars

\* a FindValue for a key the store lacks was answered with two neighbors that
\* the table holds in the other order
C21_NeighborsSentSorted ==
    \E written \in sent :
        /\ written.message.type = "FindValueReply"
        /\ written.message.value = None
        /\ written.message.neighbors # None
        /\ LET neighbors == unwrap(written.message.neighbors)
               bucket == buckets[bucket_index(SameBucketNodes[1].id)]
           IN  /\ Len(neighbors) = 2
               /\ Len(bucket) = 2
               /\ neighbors[1] = NewSource(bucket[2])
               /\ neighbors[2] = NewSource(bucket[1])

\* the step in which the MessageExecutor runs the action of a FindNode
FindNodeHandled ==
    /\ Acting("MessageExecutor", {"FindNode"})
    /\ worker_pc'["MessageExecutor"] # "act"

\* C22: handling FindNode{source, Some(id), node_id} sends one FindNodeReply
\* with the id and neighbors = closest_neighbors(node_id, 5), at most 5 and
\* in ascending order of distance to node_id, to source.endpoint; the store
\* and the routing table stay as they are
C22_FindNodeRepliesOnce ==
    [][(FindNodeHandled /\ Current("MessageExecutor").message.message_id # None) =>
          LET channeled == Current("MessageExecutor")
              message == channeled.message
              node_id == unwrap(message.node_id)
              neighbors == sources_of(closest_neighbors(buckets, node_id, 5))
              reply == Message("FindNodeReply", message.message_id, None, None, None,
                               None, None, Some(neighbors))
          IN  /\ AscendingTo(neighbors, node_id)
              /\ Len(neighbors) <= 5
              /\ WritesAtMost([by |-> channeled.response_sender, message |-> reply,
                               endpoint |-> unwrap(message.source).node_endpoint])
              /\ store' = store
              /\ buckets' = buckets
              /\ spawned' = spawned]_vars

\* a FindNodeReply with the nodes of the table went out to the requester
C22_FindNodeReplySent ==
    \E written \in sent :
        /\ written.message.type = "FindNodeReply"
        /\ written.endpoint = Requester.endpoint
        /\ Len(unwrap(written.message.neighbors)) = BucketCapacity

\* the step in which the MessageExecutor runs the action of a Ping
PingHandled ==
    /\ Acting("MessageExecutor", {"Ping"})
    /\ worker_pc'["MessageExecutor"] # "act"

\* C23: handling Ping{Some(id), from} spawns one background send of
\* PingReply{id, current_node} to from.endpoint and returns without waiting
\* for it: the handler itself writes nothing, the spawned task writes that
\* reply or, when its send fails, nothing, and touches neither the status
\* reported for the ping nor the worker, which reports PingDone whether or
\* not the task has run
C23_PingReplyInBackground ==
    /\ [][PingHandled =>
            LET channeled == Current("MessageExecutor")
            IN  /\ spawned' = spawned \cup
                       {[by |-> channeled.response_sender,
                         message_id |-> channeled.message.message_id,
                         from |-> unwrap(channeled.message.source)]}
                /\ Cardinality(spawned') = Cardinality(spawned) + 1
                /\ sent' = sent
                /\ store' = store
                /\ buckets' = buckets
                /\ worker_pc'["MessageExecutor"] = "respond"]_vars
    /\ [][\A task \in spawned \ spawned' :
            /\ spawned' = spawned \ {task}
            /\ task.message_id # None =>
                  WritesAtMost([by |-> task.by,
                                message |-> Message("PingReply", task.message_id,
                                                    Some(NewSource(CurrentNode)), None,
                                                    None, None, None, None),
                                endpoint |-> task.from.node_endpoint])
            /\ message_response' = message_response
            /\ worker_pc' = worker_pc
            /\ queue' = queue
            /\ receiver_open' = receiver_open]_vars
    /\ [](\A rid \in Submitted :
            (/\ submissions[rid].message.type = "Ping"
             /\ submissions[rid].executor = "MessageExecutor"
             /\ message_response[rid] \in Statuses) =>
                message_response[rid] = "PingDone")

\* PingDone is reported while the send of the reply has yet to run
C23_PingDoneBeforeReply ==
    \E rid \in Submitted, task \in spawned :
        /\ submissions[rid].message.type = "Ping"
        /\ message_response[rid] = "PingDone"
        /\ task.by = rid
        /\ \A written \in sent : written.by # rid

\* C24: no live id is reused: whenever send_with_message_id_expect_reply
\* registers an id, the waiting list holds no pending entry under that id,
\* also once the signed counter has wrapped around
C24_NoLiveIdReused ==
    [][next_message_id'["AddNodeExecutor"] # next_message_id["AddNodeExecutor"] =>
          generate_next_message_id("AddNodeExecutor") \notin DOMAIN pending_responses]_vars

\* the ids the calls of generate_next_message_id have returned so far
IdsReturned == UNION {{task_ids[task][i] : i \in 1..Len(task_ids[task])} : task \in Tasks}

CallsReturned ==
    CallsIssued - Cardinality({task \in Tasks : task_pc[task] = "calling"})

\* C25: on one AsyncNetwork the n calls of generate_next_message_id that
\* tasks have made concurrently returned exactly the ids 1..n, none twice and
\* none left out, and the ids one task got are strictly increasing
C25_IdsAreOneToN ==
    /\ IdsReturned = 1..CallsReturned
    /\ Cardinality(IdsReturned) = CallsReturned
    /\ \A task \in Tasks : \A i, j \in 1..Len(task_ids[task]) :
           i < j => task_ids[task][i] < task_ids[task][j]

\* calls of three tasks have interleaved: the first task got the ids 1 and
\* 4, two other tasks the ids between
C25_InterleavedCalls ==
    /\ task_ids[1] = <<1, MaxIds>>
    /\ \E task \in Tasks \ {1} : Len(task_ids[task]) = 1 /\ task_ids[task][1] = 2
    /\ CallsReturned = MaxIds

\* the pair under measure and what the calls returned for it
Measured == id_measured # None

InBucket(distance, k) == 2 ^ k <= distance /\ distance < 2 ^ (k + 1)

\* C26 as stated: whatever the pair, equal ids included, the id b is at
\* position k from a exactly when it is in the k-th Kademlia bucket of a,
\* the ids at a distance from 2^k up to 2^(k+1), that bound excluded
C26_PositionIsExactlyTheBucket ==
    Measured =>
        \A k \in BucketIndices :
            unwrap(id_measured).position = k <=> InBucket(unwrap(id_measured).distance, k)

\* C26: equal ids are at position 0 and distance 0; two ids that differ are
\* at the position k of their highest-order differing bit counted from the
\* least significant bit, 2^k <= distance < 2^(k+1), and at no other; position
\* and distance are the same both ways round, the position is below BITS; so
\* the ids other than self at position k from self are exactly the k-th
\* bucket, and position 0 is in addition the position of self
C26_PositionOfDifferingIds ==
    Measured =>
        LET a == unwrap(id_pair)[1]
            b == unwrap(id_pair)[2]
            m == unwrap(id_measured)
        IN  /\ a = b => m.position = 0 /\ m.distance = 0
            /\ a # b => \A k \in BucketIndices : m.position = k <=> InBucket(m.distance, k)
            /\ m.position = m.position_back
            /\ m.distance = m.distance_back
            /\ m.position \in 0..(BITS - 1)

\* two ids that differ in the second byte and at a bit above the lowest
C26_DifferInLowByte ==
    /\ Measured
    /\ unwrap(id_pair)[1][1] = unwrap(id_pair)[2][1]
    /\ unwrap(id_measured).position = 3
    /\ unwrap(id_measured).distance = 8

\* the messages a worker dequeued that have a handler, in the order dequeued
HandlerStarts(executor) ==
    LET HasHandler(rid) == handles(executor, submissions[rid].message.type)
    IN  SelectSeq(dequeued[executor], HasHandler)

StatusSent(rid) == message_response[rid] = message_status(submissions[rid].message.type)

\* C27: at most one handler is in progress on the worker of an executor: when
\* the handler of a message has started, the handler of every message
\* dequeued before it has returned and its status has been sent; what runs
\* beside a later handler on behalf of an earlier message is a task the
\* earlier handler spawned
C27_OneHandlerAtATime ==
    /\ [](\A executor \in Networks :
             LET starts == HandlerStarts(executor)
             IN  /\ \A i \in 1..(Len(starts) - 1) :
                        starts[i] \in handler_returned /\ StatusSent(starts[i])
                 /\ Cardinality({i \in 1..Len(starts) :
                                    starts[i] \notin handler_returned}) <= 1)
    /\ [][\A record \in sent' \ sent :
              \/ \E executor \in Networks :
                     /\ worker_pc[executor] \in {"act", "connect"}
                     /\ Current(executor).response_sender = record.by
              \/ \E task \in spawned \ spawned' : task.by = record.by]_vars

\* the reply task a Ping handler spawned has not run yet while the handler of
\* the next message of the same worker is in progress
C27_SpawnedTaskBesideLaterHandler ==
    /\ worker_pc["MessageExecutor"] = "act"
    /\ handles("MessageExecutor", Current("MessageExecutor").message.type)
    /\ \E task \in spawned : task.by < Current("MessageExecutor").response_sender

\* C28: on_response and poll never deadlock on the two locks of a handle: no
\* thread holds the response lock inside on_response, waiting for the waker
\* lock, while poll holds the waker lock, waiting for the response lock
C28_NoDeadlockOnTheLocks ==
    ~(\E thread \in Responders :
          /\ on_response_by[thread] # None
          /\ WakerLocked(unwrap(on_response_by[thread]).callback)
          /\ worker_pc["AddNodeExecutor"] = "poll_read"
          /\ WriteLocked(Probe.callback))

\* an AddNode message the add-node worker has dequeued
AddNodeDequeued(rid) ==
    /\ rid \in Submitted
    /\ submissions[rid].message.type = "AddNode"
    /\ \E i \in 1..Len(dequeued["AddNodeExecutor"]) : dequeued["AddNodeExecutor"][i] = rid

\* C29: every AddNode message the add-node worker takes from its queue gets
\* AddNodeDone in the end, whatever the probed node does, while the sweeper
\* and the clock run: the wait for the reply of the probe ends and the worker
\* goes on to the next message
C29_AddNodeAlwaysDone ==
    \A rid \in 1..MaxSubmits :
        AddNodeDequeued(rid) ~> (rid \in Submitted /\ message_response[rid] = "AddNodeDone")

\* C30: the routing table of a node that takes its messages through the
\* connection handler and the AddNode action never holds a node with the id
\* of the node that owns the table, also when an inbound message names the
\* node itself as its source
C30_OwnIdNotInTable ==
    \A index \in BucketIndices :
        \A i \in 1..Len(buckets[index]) : buckets[index][i].id # CurrentNode.id

\* the positions of the node in the bucket
Positions(nodes, node) == {i \in 1..Len(nodes) : nodes[i] = node}

\* C31: remove_and_add checks and writes under one write acquisition of the
\* bucket: whenever the write of a remove_and_add call appends to_add,
\* to_remove is in the bucket at that moment, and is removed by the same
\* step, and to_add is not in it
C31_RemoveAndAddChecksUnderTheWrite ==
    [][\A thread \in Threads :
          LET state == thread_state[thread]
          IN  (/\ state.pc = "remove_and_add_write"
               /\ thread_state'[thread].pc = "idle"
               /\ Cardinality(Positions(buckets'[state.index], unwrap(state.node)))
                      > Cardinality(Positions(buckets[state.index], unwrap(state.node))))
              => /\ Positions(buckets[state.index], unwrap(state.to_remove)) # {}
                 /\ Positions(buckets'[state.index], unwrap(state.to_remove)) = {}
                 /\ Positions(buckets[state.index], unwrap(state.node)) = {}]_vars

\* C32: after any interleaving of add calls and of remove_and_add calls made
\* with the bucket index of their nodes, every node held in bucket i is at
\* differing bit position i from the id of the table's node, so no node is
\* held in two buckets
C32_NodesInTheBucketOfTheirPosition ==
    /\ \A index \in BucketIndices : \A i \in 1..Len(buckets[index]) :
           differing_bit_position(CurrentNode.id, buckets[index][i].id) = index
    /\ \A index \in BucketIndices, other \in BucketIndices :
           index # other =>
               \A i \in 1..Len(buckets[index]) :
                   Positions(buckets[other], buckets[index][i]) = {}

\* two buckets hold nodes, one of them a node that a remove_and_add call put
\* in the place of another
C32_TwoBucketsAfterRemoveAndAdd ==
    /\ \E i \in 1..Len(returns) : returns[i].op = "remove_and_add" /\ returns[i].added
    /\ Cardinality({index \in BucketIndices : buckets[index] # <<>>}) = 2

\* the add-node worker is inside act_on for a node the table holds
AddNodeOfHeldNode ==
    /\ worker_pc["AddNodeExecutor"] \in {"act", "connect", "register", "await"}
    /\ Current("AddNodeExecutor").message.type = "AddNode"
    /\ contains(buckets, to_node(unwrap(Current("AddNodeExecutor").message.source)))[2]

\* C33: AddNode for a node that is already in the table leaves every bucket
\* as it is, its nodes and their order, whether the probe of the oldest node
\* is answered, times out or cannot be sent
C33_AddNodeOfHeldNodeKeepsTable ==
    [][AddNodeOfHeldNode => buckets' = buckets]_vars

\* the handler of an AddNode for a node of the table has returned after a
\* probe that failed: the send failed, or the timeout was delivered
C33_HeldNodeProbeFailed ==
    /\ worker_pc["AddNodeExecutor"] = "respond"
    /\ add_node_local # None
    /\ contains(Probe.before, Probe.source)[2]
    /\ \/ Probe.send_result = Some("Err")
       \/ poll(Probe.callback) = Some("Err")

\* the callback was registered under an id that was registered again later
RegisteredAgain(callback) ==
    \E later \in Callbacks :
        /\ later > callback
        /\ registrations[later].message_id = registrations[callback].message_id

\* C34: add under an id that has a pending entry replaces the entry by the
\* new callback with the time of the add; the callback that was displaced
\* gets no on_response afterwards, neither a reply nor a timeout; a callback
\* whose id is not added again gets at most one on_response, and a timeout
\* only after its entry has expired
C34_AddReplacesPendingEntry ==
    /\ [][Len(registrations') > Len(registrations) =>
             LET added == registrations'[Len(registrations')]
             IN  pending_responses'[added.message_id] =
                     TimedCallback(Len(registrations'), now)]_vars
    /\ [][\A callback \in Callbacks :
             RegisteredAgain(callback) => deliveries'[callback] = deliveries[callback]]_vars
    /\ [](\A callback \in Callbacks :
             ~RegisteredAgain(callback) =>
                 /\ Len(deliveries[callback]) <= 1
                 /\ \A i \in 1..Len(deliveries[callback]) :
                        IsTimeout(deliveries[callback][i]) =>
                            deliveries[callback][i].at - registrations[callback].at
                                > ExpireAfter)

\* an entry was replaced after it had expired and before the sweeper came:
\* the first callback was never called, the second got the timeout of the id
C34_DisplacedNeverNotified ==
    /\ Len(registrations) = 2
    /\ registrations[1].message_id = registrations[2].message_id
    /\ registrations[2].at - registrations[1].at > ExpireAfter
    /\ deliveries[1] = <<>>
    /\ Len(deliveries[2]) = 1
    /\ IsTimeout(deliveries[2][1])
    /\ registrations[1].message_id \notin DOMAIN pending_responses

\* C35: the reply to a FindValue is sent by a task beside the worker, as the
\* reply to a Ping is: no step of the FindValue handler writes to a
\* connection, so the send is never between the worker and the status
C35_FindValueReplySentBesideTheWorker ==
    [][Acting("MessageExecutor", {"FindValue"}) => sent' = sent]_vars

\* the submission was accepted into the queue of the MessageExecutor
AcceptedByMessageExecutor(rid) ==
    /\ rid <= Len(submissions)
    /\ submissions[rid].executor = "MessageExecutor"
    /\ submissions[rid].accepted

\* the one-shot channel of the submission has resolved, to a status or to a
\* receive error
ResponseResolved(rid) ==
    /\ rid <= Len(message_response)
    /\ message_response[rid] # "pending"

\* the submission was dequeued by the worker after the worker took a ShutDown
DequeuedBehindShutDown(rid) ==
    \E i, j \in 1..Len(dequeued["MessageExecutor"]) :
        /\ i < j
        /\ submissions[dequeued["MessageExecutor"][i]].message.type = "ShutDown"
        /\ dequeued["MessageExecutor"][j] = rid

\* C36: once the worker of the MessageExecutor has dequeued a ShutDown no
\* message is dequeued or handled, the messages accepted behind the ShutDown
\* resolve to a receive error and never to a status, and the awaiter of
\* every accepted submission gets an answer
C36_NoAwaiterBlocksForever ==
    /\ [](\A rid \in 1..Len(submissions) :
             /\ ~DequeuedBehindShutDown(rid)
             /\ (/\ AcceptedByMessageExecutor(rid)
                 /\ worker_pc["MessageExecutor"] = "returned"
                 /\ \A i \in 1..Len(dequeued["MessageExecutor"]) :
                        dequeued["MessageExecutor"][i] # rid)
                    => message_response[rid] = "RecvError")
    /\ \A rid \in 1..MaxSubmits :
           [](AcceptedByMessageExecutor(rid) => <>ResponseResolved(rid))

\* C37: find_value_reply_type panics when the value and the neighbors are
\* both absent, and every FindValueReply it returns has exactly one of the
\* two set
C37_ExactlyOneOfValueAndNeighbors ==
    reply_constructed # None =>
        LET arguments == unwrap(reply_arguments)
            constructed == unwrap(reply_constructed)
        IN  /\ constructed.panicked <=>
                   (arguments.value = None /\ arguments.neighbors = None)
            /\ ~constructed.panicked =>
                   LET message == unwrap(constructed.message)
                   IN  is_some(message.value) # is_some(message.neighbors)

\* the worker of the MessageExecutor is at the handler of a request of one of
\* the types that carries no message id
ActingWithoutId(types) ==
    /\ Acting("MessageExecutor", types)
    /\ Current("MessageExecutor").message.message_id = None

\* the worker of the MessageExecutor takes a step
WorkerSteps == worker_pc'["MessageExecutor"] # worker_pc["MessageExecutor"]

\* C38: the handler of a FindValue or FindNode without a message id sends
\* nothing and leaves the store, the routing table and the waiting list as
\* they are; the worker then reports the status of the arm and takes the
\* next message
C38_RequestWithoutIdIsDropped ==
    /\ [][(ActingWithoutId({"FindValue", "FindNode"}) /\ WorkerSteps) =>
             /\ sent' = sent
             /\ spawned' = spawned
             /\ store' = store
             /\ buckets' = buckets
             /\ pending_responses' = pending_responses
             /\ worker_pc'["MessageExecutor"] = "respond"]_vars
    /\ [][(/\ worker_pc["MessageExecutor"] = "respond"
           /\ Current("MessageExecutor").message.type \in {"FindValue", "FindNode"}
           /\ Current("MessageExecutor").message.message_id = None
           /\ WorkerSteps) =>
             /\ message_response'[Current("MessageExecutor").response_sender] = "FindValueDone"
             /\ worker_pc'["MessageExecutor"] = "recv"]_vars

\* a FindValue without a message id was answered with the status only, and
\* the worker has handled the Store behind it
C38_DroppedThenNextHandled ==
    /\ Len(submissions) = 2
    /\ submissions[1].message.type = "FindValue"
    /\ submissions[1].message.message_id = None
    /\ submissions[2].message.type = "Store"
    /\ message_response = <<"FindValueDone", "StoreDone">>
    /\ "kademlia" \in DOMAIN store
    /\ sent = {}

\* the spawned task of a Ping without a message id takes its step
TaskWithoutIdRuns ==
    \E task \in spawned : task.message_id = None /\ task \notin spawned'

\* C39: no PingReply is sent for a Ping without a message id: the task the
\* handler spawned fails on its assertion and the failure changes nothing of
\* the worker, which reports PingDone for the Ping and takes the next message
C39_PingWithoutIdFailsInItsTask ==
    /\ [](\A written \in sent :
             submissions[written.by].message.type = "Ping" =>
                 submissions[written.by].message.message_id # None)
    /\ [][TaskWithoutIdRuns =>
             /\ sent' = sent
             /\ worker_pc' = worker_pc
             /\ worker_message' = worker_message
             /\ queue' = queue
             /\ receiver_open' = receiver_open
             /\ message_response' = message_response]_vars
    /\ [][(ActingWithoutId({"Ping"}) /\ WorkerSteps) =>
             /\ sent' = sent
             /\ worker_pc'["MessageExecutor"] = "respond"]_vars
    /\ [][(/\ worker_pc["MessageExecutor"] = "respond"
           /\ Current("MessageExecutor").message.type = "Ping"
           /\ Current("MessageExecutor").message.message_id = None
           /\ WorkerSteps) =>
             /\ message_response'[Current("MessageExecutor").response_sender] = "PingDone"
             /\ worker_pc'["MessageExecutor"] = "recv"]_vars

\* the task of a Ping without a message id has failed, nothing was sent, and
\* the worker has reported PingDone and handled the Store behind the Ping
C39_TaskFailedWorkerWentOn ==
    /\ Len(submissions) = 2
    /\ submissions[1].message.type = "Ping"
    /\ submissions[1].message.message_id = None
    /\ submissions[2].message.type = "Store"
    /\ message_response = <<"PingDone", "StoreDone">>
    /\ spawned = {}
    /\ sent = {}

\* the connection has read a ShutDown
ReadShutDown(connection) ==
    /\ connections[connection].read_ok
    /\ unwrap(connections[connection].message).type = "ShutDown"

\* C40: a ShutDown read from a connection is submitted to the
\* MessageExecutor and to nothing else: no AddNode is submitted for it, the
\* AddNodeExecutor is given AddNode messages only, its queue stays open and
\* its worker and the sweeper never stop; once the worker of the
\* MessageExecutor has dropped its receiver every message submitted to the
\* MessageExecutor is rejected
C40_ShutDownStopsTheMessageExecutorOnly ==
    /\ [](\A connection \in 1..Len(connections) :
             (ReadShutDown(connection) /\ connections[connection].pc = "done") =>
                 /\ connections[connection].add_node_submission = 0
                 /\ connections[connection].message_submission \in 1..Len(submissions)
                 /\ submissions[connections[connection].message_submission].executor
                        = "MessageExecutor"
                 /\ submissions[connections[connection].message_submission].message
                        = shutdown_type)
    /\ [](\A rid \in 1..Len(submissions) :
             submissions[rid].executor = "AddNodeExecutor" =>
                 /\ submissions[rid].message.type = "AddNode"
                 /\ submissions[rid].accepted)
    /\ [](/\ receiver_open["AddNodeExecutor"]
          /\ worker_pc["AddNodeExecutor"] # "returned"
          /\ ~should_stop
          /\ sweeper_pc # "stopped")
    /\ [][(/\ ~receiver_open["MessageExecutor"]
           /\ Len(submissions') > Len(submissions)
           /\ submissions'[Len(submissions')].executor = "MessageExecutor") =>
             /\ ~submissions'[Len(submissions')].accepted
             /\ message_response'[Len(submissions')] = "QueueClosed"
             /\ queue' = queue]_vars

\* the first connection brought a ShutDown, which the MessageExecutor
\* answered with ShutdownDone; the Store of the second connection was
\* rejected by the MessageExecutor and its AddNode was handled
C40_RejectedAfterShutDownAddNodeDone ==
    /\ Len(connections) = 2
    /\ ReadShutDown(1)
    /\ connections[2].read_ok
    /\ unwrap(connections[2].message).type = "Store"
    /\ connections[2].pc = "done"
    /\ message_response[connections[1].message_submission] = "ShutdownDone"
    /\ worker_pc["MessageExecutor"] = "returned"
    /\ message_response[connections[2].message_submission] = "QueueClosed"
    /\ message_response[connections[2].add_node_submission] = "AddNodeDone"

====
